---- MODULE Spec2Model ----
(***************************************************************************)
(* A model of gomantics/cfgx.                                              *)
(*                                                                         *)
(* Part I  (specifications Spec, FairSpec): the watch command's loop of    *)
(*   cmd/cfgx/watch.go: the event-consuming loop, the debounce timers      *)
(*   created by time.AfterFunc, the callbacks they start, the re-add       *)
(*   (retry) goroutines and the shutdown signal.                           *)
(*                                                                         *)
(* Part II (specification GenSpec): one call of cfgx.GenerateFromFile:     *)
(*   reading and parsing the input, envoverride.Apply, the validation of   *)
(*   the file: references, the emission that reads the files again, and    *)
(*   the write of the output file, with the referenced files changing      *)
(*   underneath it.                                                        *)
(*                                                                         *)
(* Part III (specification FnSpec): one call of a function of the          *)
(*   generator or of the generated code, on arguments drawn from bounded   *)
(*   sets.                                                                 *)
(***************************************************************************)
EXTENDS Integers, Sequences, FiniteSets, TLC

(***************************************************************************)
(* Bounds of the model.                                                    *)
(***************************************************************************)
\* number of filesystem operations (write, remove, create) the environment performs
MaxFsOps == 3
\* clock ticks that make up the debounce delay (--debounce, watch.go:106)
DebounceTicks == 1
\* clock ticks that make up the 100 ms retry interval (watch.go:152)
RetryTicks == 1

(***************************************************************************)
(* Program constants.                                                      *)
(***************************************************************************)
\* for i := 0; i < 10; i++   (watch.go:147)
RetryAttempts == 10

VARIABLES
    loopPc,          \* position of RunE: "start", "select", "unlock", "sigUnlock", "done", "failed"
    exitReason,      \* why RunE returned: "", "signal", "attach"
    initErr,         \* the initial GenerateFromFile returned an error
    events,          \* watcher.Events: the events delivered and not yet consumed
    file,            \* the input file: [exists, ver, valid]
    fsOps,           \* filesystem operations performed so far
    watched,         \* the watcher holds a watch on absInputFile
    watcherClosed,   \* watcher.Close() has run
    ctxDone,         \* cancel() has run
    sigPending,      \* a signal is waiting in sigChan
    timerMu,         \* timerMu is held
    debounceTimer,   \* the timer handle: an index of timers, 0 for nil
    timers,          \* every timer time.AfterFunc created: [state, age, ver, errsBefore, burst]
    runs,            \* every callback the runtime started: [timer, pc, firedAge, readVer, ok, late]
    readdInProgress, \* the atomic.Bool
    retries,         \* every re-add goroutine: [pc, i, waited, attempts, spaced, result, late]
    removes,         \* remove events the loop has consumed
    output,          \* the output file: the version of the input it was generated from, 0 for none
    gpc,             \* position of GenerateFromFile: "call", "generate", "emit", "write", "done"
    gopts,           \* *GenerateOptions and the state of the input file: [input, outputFile, enableEnv, maxFileSize]
    genv,            \* the process environment: variable name -> value
    gfiles,          \* the files below the input directory: name -> [exists, readable, size, data]
    gchanges,        \* changes made to those files during the call
    gtree,           \* configData
    gbuf,            \* the emitted source: [tree, lits], NoSource before emission
    gerr,            \* the error GenerateFromFile returns, NoErr for nil
    gout,            \* the output file: [state, src], state "absent", "old" or "written"
    ghist,           \* [out0, collected]: the output file before the call, struct types collected
    \* Part III: one call of a function of the generator
    fpc,             \* "off", "in" before the call, "out" after it
    fn,              \* the function called
    fin,             \* its arguments
    fout             \* its result

watchVars == <<loopPc, exitReason, initErr, events, file, fsOps, watched, watcherClosed,
               ctxDone, sigPending, timerMu, debounceTimer, timers, runs,
               readdInProgress, retries, removes, output>>

genVars == <<gpc, gopts, genv, gfiles, gchanges, gtree, gbuf, gerr, gout, ghist>>

fnVars == <<fpc, fn, fin, fout>>

vars == <<loopPc, exitReason, initErr, events, file, fsOps, watched, watcherClosed,
          ctxDone, sigPending, timerMu, debounceTimer, timers, runs,
          readdInProgress, retries, removes, output,
          gpc, gopts, genv, gfiles, gchanges, gtree, gbuf, gerr, gout, ghist,
          fpc, fn, fin, fout>>

WriteOps == {"write", "create"}

\* what GenerateFromFile does with the input file as it is now: it fails when the
\* file cannot be read or does not generate
GenerateOk(f) == f.exists /\ f.valid

(***************************************************************************)
(* The filesystem and the user: the environment of the watch loop, for as  *)
(* long as RunE is in the loop.                                            *)
(***************************************************************************)
LoopRunning == loopPc \in {"select", "unlock", "sigUnlock"}

Deliver(op, f) == IF watched THEN Append(events, [op |-> op, ver |-> f.ver]) ELSE events

\* the file is written in place; the watcher reports Write (or Create)
FsWrite ==
    /\ fsOps < MaxFsOps
    /\ LoopRunning
    /\ file.exists
    /\ watched
    /\ \E op \in WriteOps, v \in BOOLEAN :
          LET f == [exists |-> TRUE, ver |-> file.ver + 1, valid |-> v] IN
          /\ file' = f
          /\ events' = Deliver(op, f)
    /\ fsOps' = fsOps + 1
    /\ UNCHANGED <<loopPc, exitReason, initErr, watched, watcherClosed, ctxDone, sigPending,
                   timerMu, debounceTimer, timers, runs, readdInProgress, retries, output, removes>>

\* the file is unlinked (or replaced by a rename): the watcher reports Remove and
\* the kernel drops the watch
FsRemove ==
    /\ fsOps < MaxFsOps
    /\ LoopRunning
    /\ file.exists
    /\ file' = [file EXCEPT !.exists = FALSE]
    /\ events' = Deliver("remove", file)
    /\ watched' = FALSE
    /\ fsOps' = fsOps + 1
    /\ UNCHANGED <<loopPc, exitReason, initErr, watcherClosed, ctxDone, sigPending,
                   timerMu, debounceTimer, timers, runs, readdInProgress, retries, output, removes>>

\* the file is created again at the same path; no watch is on it, so no event
FsCreate ==
    /\ fsOps < MaxFsOps
    /\ LoopRunning
    /\ ~file.exists
    /\ \E v \in BOOLEAN :
          file' = [exists |-> TRUE, ver |-> file.ver + 1, valid |-> v]
    /\ fsOps' = fsOps + 1
    /\ UNCHANGED <<loopPc, exitReason, initErr, events, watched, watcherClosed, ctxDone,
                   sigPending, timerMu, debounceTimer, timers, runs, readdInProgress,
                   retries, output, removes>>

\* SIGINT / SIGTERM arrives in sigChan
Signal ==
    /\ loopPc \in {"select", "unlock"}
    /\ ~sigPending
    /\ sigPending' = TRUE
    /\ UNCHANGED <<loopPc, exitReason, initErr, events, file, fsOps, watched, watcherClosed,
                   ctxDone, timerMu, debounceTimer, timers, runs, readdInProgress,
                   retries, output, removes>>

\* time passes: every armed timer and every waiting retry gets one tick older
Tick ==
    /\ \/ \E t \in DOMAIN timers : timers[t].state = "armed" /\ timers[t].age < DebounceTicks
       \/ \E k \in DOMAIN retries : retries[k].pc = "wait" /\ retries[k].waited < RetryTicks
    /\ timers' = [t \in DOMAIN timers |->
                    IF timers[t].state = "armed" /\ timers[t].age < DebounceTicks
                    THEN [timers[t] EXCEPT !.age = @ + 1] ELSE timers[t]]
    /\ retries' = [k \in DOMAIN retries |->
                    IF retries[k].pc = "wait" /\ retries[k].waited < RetryTicks
                    THEN [retries[k] EXCEPT !.waited = @ + 1] ELSE retries[k]]
    /\ UNCHANGED <<loopPc, exitReason, initErr, events, file, fsOps, watched, watcherClosed,
                   ctxDone, sigPending, timerMu, debounceTimer, runs, readdInProgress, output, removes>>

(***************************************************************************)
(* RunE up to the watch loop: the initial generation and watcher.Add.      *)
(***************************************************************************)
Start ==
    /\ loopPc = "start"
    /\ initErr' = ~GenerateOk(file)
    /\ output' = IF GenerateOk(file) THEN file.ver ELSE output
    /\ IF file.exists
          THEN /\ watched' = TRUE
               /\ loopPc' = "select"
               /\ UNCHANGED exitReason
          ELSE /\ loopPc' = "failed"
               /\ exitReason' = "attach"
               /\ UNCHANGED watched
    /\ UNCHANGED <<events, file, fsOps, watcherClosed, ctxDone, sigPending, timerMu,
                   debounceTimer, timers, runs, readdInProgress, retries, removes>>

(***************************************************************************)
(* The watch loop: the write/create branch.                                *)
(***************************************************************************)
\* debounceTimer.Stop() under "if debounceTimer != nil": a timer that has not
\* fired is stopped, one that has fired or was stopped is left as it is
StopTimerNoop(ts, h) == ts

StopTimer(ts, h) ==
    IF h # 0 /\ ts[h].state = "armed" THEN [ts EXCEPT ![h].state = "stopped"] ELSE ts

\* time.AfterFunc(debounceDuration, f): a new timer with the whole delay ahead
\* of it. burst numbers the bursts of events: an event that arrives before the
\* timer of the event before it has fired belongs to the same burst
AfterFunc(ts, h, e) ==
    Append(ts, [state |-> "armed", age |-> 0, ver |-> e.ver,
                errsBefore |-> Cardinality({r \in DOMAIN runs : runs[r].pc = "err"}),
                burst |-> IF h = 0 THEN 1
                          ELSE IF ts[h].state = "fired" THEN ts[h].burst + 1
                          ELSE ts[h].burst])

\* timerMu.Lock(); Stop; debounceTimer = time.AfterFunc(...)
WriteEvent ==
    /\ loopPc = "select"
    /\ events # <<>>
    /\ Head(events).op \in WriteOps
    /\ ~timerMu
    /\ timerMu' = TRUE
    /\ timers' = AfterFunc(StopTimer(timers, debounceTimer), debounceTimer, Head(events))
    /\ debounceTimer' = Len(timers) + 1
    /\ events' = Tail(events)
    /\ loopPc' = "unlock"
    /\ UNCHANGED <<exitReason, initErr, file, fsOps, watched, watcherClosed, ctxDone,
                   sigPending, runs, readdInProgress, retries, output, removes>>

\* timerMu.Unlock()
Unlock ==
    /\ loopPc = "unlock"
    /\ timerMu' = FALSE
    /\ loopPc' = "select"
    /\ UNCHANGED <<exitReason, initErr, events, file, fsOps, watched, watcherClosed,
                   ctxDone, sigPending, debounceTimer, timers, runs, readdInProgress,
                   retries, output, removes>>

(***************************************************************************)
(* The timer and its callback, each callback in a goroutine of its own.    *)
(***************************************************************************)
FireReadyEarly(t) == timers[t].state = "armed"

\* the runtime starts f once the delay has passed
FireReady(t) == timers[t].state = "armed" /\ timers[t].age >= DebounceTicks

\* the callback starts in a goroutine of its own and GenerateFromFile reads the
\* input file
Fire(t) ==
    /\ FireReady(t)
    /\ timers' = [timers EXCEPT ![t].state = "fired"]
    /\ runs' = Append(runs, [timer |-> t, pc |-> "running", firedAge |-> timers[t].age,
                             readVer |-> file.ver, ok |-> GenerateOk(file),
                             late |-> loopPc \in {"done", "failed"}])
    /\ UNCHANGED <<loopPc, exitReason, initErr, events, file, fsOps, watched, watcherClosed,
                   ctxDone, sigPending, timerMu, debounceTimer, readdInProgress,
                   retries, output, removes>>

\* what the callback does to the loop when GenerateFromFile has returned: it
\* prints the error or the success line and nothing else
AfterRunFatal(ok) == IF ok THEN loopPc ELSE "failed"

AfterRun(ok) == loopPc

\* GenerateFromFile returns: the output file is written on success only
RunFinish(r) ==
    /\ runs[r].pc = "running"
    /\ runs' = [runs EXCEPT ![r].pc = IF runs[r].ok THEN "ok" ELSE "err"]
    /\ output' = IF runs[r].ok THEN runs[r].readVer ELSE output
    /\ loopPc' = AfterRun(runs[r].ok)
    /\ UNCHANGED <<exitReason, initErr, events, file, fsOps, watched, watcherClosed,
                   ctxDone, sigPending, timerMu, debounceTimer, timers, readdInProgress,
                   retries, removes>>

(***************************************************************************)
(* The watch loop: the remove branch and the re-add goroutine.             *)
(***************************************************************************)
CompareAndSwapAlways == TRUE

\* readdInProgress.CompareAndSwap(false, true) succeeds
CompareAndSwap == ~readdInProgress

\* the remove branch, if it stopped the debounce timer as the other branches do
RemoveEventStopping ==
    /\ loopPc = "select"
    /\ events # <<>>
    /\ Head(events).op = "remove"
    /\ events' = Tail(events)
    /\ removes' = removes + 1
    /\ watched' = FALSE
    /\ timers' = StopTimer(timers, debounceTimer)
    /\ IF CompareAndSwap
          THEN /\ readdInProgress' = TRUE
               /\ retries' = Append(retries, [pc |-> "wait", i |-> 0, waited |-> 0,
                                              attempts |-> 0, spaced |-> TRUE,
                                              result |-> "", late |-> 0])
          ELSE UNCHANGED <<readdInProgress, retries>>
    /\ UNCHANGED <<loopPc, exitReason, initErr, file, fsOps, watcherClosed, ctxDone,
                   sigPending, timerMu, debounceTimer, runs, output>>

RemoveEvent ==
    /\ loopPc = "select"
    /\ events # <<>>
    /\ Head(events).op = "remove"
    /\ events' = Tail(events)
    /\ removes' = removes + 1
    /\ watched' = FALSE
    /\ IF CompareAndSwap
          THEN /\ readdInProgress' = TRUE
               /\ retries' = Append(retries, [pc |-> "wait", i |-> 0, waited |-> 0,
                                              attempts |-> 0, spaced |-> TRUE,
                                              result |-> "", late |-> 0])
          ELSE UNCHANGED <<readdInProgress, retries>>
    /\ UNCHANGED <<loopPc, exitReason, initErr, file, fsOps, watcherClosed, ctxDone,
                   sigPending, timerMu, debounceTimer, timers, runs, output>>

\* the loop condition i < 10 is false after the increment
ExhaustedOffByOne(i) == i > RetryAttempts

Exhausted(i) == i >= RetryAttempts

\* watcher.Add(absInputFile) succeeds
AddOk == file.exists /\ ~watcherClosed

\* case <-time.After(100 * time.Millisecond): one attempt to re-add the watch
RetryAttempt(k) ==
    /\ retries[k].pc = "wait"
    /\ retries[k].waited >= RetryTicks
    /\ LET t == [retries[k] EXCEPT !.attempts = @ + 1,
                                    !.spaced = @ /\ retries[k].waited >= RetryTicks,
                                    !.late = @ + (IF loopPc = "done" THEN 1 ELSE 0)] IN
       IF AddOk
          THEN /\ watched' = TRUE
               /\ retries' = [retries EXCEPT ![k] = [t EXCEPT !.pc = "exit",
                                                              !.result = "rewatched"]]
          ELSE /\ UNCHANGED watched
               /\ retries' = [retries EXCEPT ![k] =
                     IF Exhausted(t.i + 1)
                     THEN [t EXCEPT !.i = @ + 1, !.pc = "exit", !.result = "warned"]
                     ELSE [t EXCEPT !.i = @ + 1, !.waited = 0]]
    /\ UNCHANGED <<loopPc, exitReason, initErr, events, file, fsOps, watcherClosed, ctxDone,
                   sigPending, timerMu, debounceTimer, timers, runs, readdInProgress, output, removes>>

\* case <-ctx.Done(): return
RetryCancel(k) ==
    /\ retries[k].pc = "wait"
    /\ ctxDone
    /\ retries' = [retries EXCEPT ![k].pc = "exit", ![k].result = "cancelled"]
    /\ UNCHANGED <<loopPc, exitReason, initErr, events, file, fsOps, watched, watcherClosed,
                   ctxDone, sigPending, timerMu, debounceTimer, timers, runs,
                   readdInProgress, output, removes>>

\* defer readdInProgress.Store(false), and the goroutine is gone
RetryExit(k) ==
    /\ retries[k].pc = "exit"
    /\ readdInProgress' = FALSE
    /\ retries' = [retries EXCEPT ![k].pc = "ended"]
    /\ UNCHANGED <<loopPc, exitReason, initErr, events, file, fsOps, watched, watcherClosed,
                   ctxDone, sigPending, timerMu, debounceTimer, timers, runs, output, removes>>

(***************************************************************************)
(* The watch loop: the signal branch.                                      *)
(***************************************************************************)
\* the signal branch's "if debounceTimer != nil { debounceTimer.Stop() }"
StopOnSignalSkipped(ts, h) == ts

StopOnSignal(ts, h) == StopTimer(ts, h)

\* case <-sigChan: timerMu.Lock(); debounceTimer.Stop()
SigLock ==
    /\ loopPc = "select"
    /\ sigPending
    /\ ~timerMu
    /\ sigPending' = FALSE
    /\ timerMu' = TRUE
    /\ timers' = StopOnSignal(timers, debounceTimer)
    /\ loopPc' = "sigUnlock"
    /\ UNCHANGED <<exitReason, initErr, events, file, fsOps, watched, watcherClosed,
                   ctxDone, debounceTimer, runs, readdInProgress, retries, output, removes>>

\* timerMu.Unlock(); return nil, and the deferred signal.Stop, cancel() and
\* watcher.Close()
SigReturn ==
    /\ loopPc = "sigUnlock"
    /\ timerMu' = FALSE
    /\ ctxDone' = TRUE
    /\ watcherClosed' = TRUE
    /\ watched' = FALSE
    /\ events' = <<>>
    /\ loopPc' = "done"
    /\ exitReason' = "signal"
    /\ UNCHANGED <<initErr, file, fsOps, sigPending, debounceTimer, timers, runs,
                   readdInProgress, retries, output, removes>>

(***************************************************************************)
(* Values shared by the two parts.                                         *)
(***************************************************************************)
\* a nil error
NoErr == [msg |-> <<>>, key |-> <<>>, path |-> <<>>]

\* a table without keys
NoTable == [key \in {} |-> key]

\* no source text
NoSource == [tree |-> NoTable, lits |-> {}]

\* no call of GenerateFromFile is modelled step by step
GenOff ==
    /\ gpc = "off"
    /\ gopts = <<>>
    /\ genv = <<>>
    /\ gfiles = <<>>
    /\ gchanges = 0
    /\ gtree = NoTable
    /\ gbuf = NoSource
    /\ gerr = NoErr
    /\ gout = [state |-> "absent", src |-> NoSource]
    /\ ghist = <<>>

\* no function is called on its own
FnOff ==
    /\ fpc = "off"
    /\ fn = ""
    /\ fin = <<>>
    /\ fout = <<>>

(***************************************************************************)
(* The specification of the watch command.                                 *)
(***************************************************************************)
Init ==
    /\ loopPc = "start"
    /\ exitReason = ""
    /\ initErr = FALSE
    /\ events = <<>>
    /\ file \in [exists : BOOLEAN, ver : {1}, valid : BOOLEAN]
    /\ fsOps = 0
    /\ watched = FALSE
    /\ watcherClosed = FALSE
    /\ ctxDone = FALSE
    /\ sigPending = FALSE
    /\ timerMu = FALSE
    /\ debounceTimer = 0
    /\ timers = <<>>
    /\ runs = <<>>
    /\ readdInProgress = FALSE
    /\ retries = <<>>
    /\ removes = 0
    /\ output = 0
    /\ GenOff
    /\ FnOff

Next ==
    \/ FsWrite /\ UNCHANGED <<genVars, fnVars>>
    \/ FsRemove /\ UNCHANGED <<genVars, fnVars>>
    \/ FsCreate /\ UNCHANGED <<genVars, fnVars>>
    \/ Signal /\ UNCHANGED <<genVars, fnVars>>
    \/ Tick /\ UNCHANGED <<genVars, fnVars>>
    \/ Start /\ UNCHANGED <<genVars, fnVars>>
    \/ WriteEvent /\ UNCHANGED <<genVars, fnVars>>
    \/ Unlock /\ UNCHANGED <<genVars, fnVars>>
    \/ \E t \in DOMAIN timers : Fire(t) /\ UNCHANGED <<genVars, fnVars>>
    \/ \E r \in DOMAIN runs : RunFinish(r) /\ UNCHANGED <<genVars, fnVars>>
    \/ RemoveEvent /\ UNCHANGED <<genVars, fnVars>>
    \/ \E k \in DOMAIN retries : RetryAttempt(k) /\ UNCHANGED <<genVars, fnVars>>
    \/ \E k \in DOMAIN retries : RetryCancel(k) /\ UNCHANGED <<genVars, fnVars>>
    \/ \E k \in DOMAIN retries : RetryExit(k) /\ UNCHANGED <<genVars, fnVars>>
    \/ SigLock /\ UNCHANGED <<genVars, fnVars>>
    \/ SigReturn /\ UNCHANGED <<genVars, fnVars>>

Spec == Init /\ [][Next]_vars

\* the scheduler runs every runnable goroutine and time passes
FairSpec ==
    /\ Spec
    /\ WF_vars(Tick /\ UNCHANGED <<genVars, fnVars>>)
    /\ WF_vars(\E k \in DOMAIN retries : RetryAttempt(k) /\ UNCHANGED <<genVars, fnVars>>)
    /\ WF_vars(\E k \in DOMAIN retries : RetryCancel(k) /\ UNCHANGED <<genVars, fnVars>>)
    /\ WF_vars(\E k \in DOMAIN retries : RetryExit(k) /\ UNCHANGED <<genVars, fnVars>>)

\* the scheduler also runs the loop whenever it has a case to take, the
\* runtime fires every timer that is due, and every callback returns; only
\* the filesystem, the user and the signal are free not to act
LiveSpec ==
    /\ FairSpec
    /\ WF_vars(Start /\ UNCHANGED <<genVars, fnVars>>)
    /\ WF_vars(WriteEvent /\ UNCHANGED <<genVars, fnVars>>)
    /\ WF_vars(Unlock /\ UNCHANGED <<genVars, fnVars>>)
    /\ WF_vars(RemoveEvent /\ UNCHANGED <<genVars, fnVars>>)
    /\ WF_vars(SigLock /\ UNCHANGED <<genVars, fnVars>>)
    /\ WF_vars(SigReturn /\ UNCHANGED <<genVars, fnVars>>)
    /\ WF_vars(\E t \in DOMAIN timers : Fire(t) /\ UNCHANGED <<genVars, fnVars>>)
    /\ WF_vars(\E r \in DOMAIN runs : RunFinish(r) /\ UNCHANGED <<genVars, fnVars>>)

(***************************************************************************)
(* Claims about the watch loop.                                            *)
(***************************************************************************)
ActiveRetries == {k \in DOMAIN retries : retries[k].pc # "ended"}
ArmedTimers == {t \in DOMAIN timers : timers[t].state = "armed"}
RunningRuns == {r \in DOMAIN runs : runs[r].pc = "running"}
LoopEnded == loopPc \in {"done", "failed"}

\* C1: at most one re-add (retry) goroutine is active at any moment, whatever
\* remove events arrive, also one that arrives while a retry is in flight.
C1_SingleRetry == Cardinality(ActiveRetries) <= 1

\* a second remove event was consumed while the retry of the first was in flight
C1_Witness ==
    /\ removes >= 2
    /\ Len(retries) = 1
    /\ ActiveRetries = {1}

\* C2: no two regeneration runs (GenerateFromFile called by a timer callback)
\* execute at the same time.
C2_NoOverlappingRuns == Cardinality(RunningRuns) <= 1

C5_RetrySafety ==
    /\ readdInProgress <=> ActiveRetries # {}
    /\ \A k \in DOMAIN retries :
          /\ retries[k].attempts <= RetryAttempts
          /\ retries[k].spaced
          /\ retries[k].result = "rewatched" =>
                retries[k].attempts = retries[k].i + 1 /\ retries[k].pc # "wait"
          /\ retries[k].result = "warned" <=>
                retries[k].i = RetryAttempts /\ retries[k].attempts = RetryAttempts
          /\ retries[k].pc = "wait" <=> retries[k].result = ""

C5_BoundedRetry ==
    /\ []C5_RetrySafety
    /\ \A k \in 1..MaxFsOps :
          (k \in DOMAIN retries) ~> (k \in DOMAIN retries /\ retries[k].pc = "ended")

\* a retry has given up after 10 failed attempts and has cleared the flag
C5_Witness ==
    /\ ~readdInProgress
    /\ \E k \in DOMAIN retries : retries[k].result = "warned" /\ retries[k].pc = "ended"

\* C6: at most one debounce timer is armed at any moment, and it is the one the
\* handle names; the handle is replaced only under timerMu, by a timer with the
\* whole delay ahead of it, after the timer it named was stopped.
C6_ArmedInv ==
    /\ Cardinality(ArmedTimers) <= 1
    /\ ArmedTimers \subseteq {debounceTimer}

C6_Replace ==
    debounceTimer' # debounceTimer =>
        /\ timerMu'
        /\ debounceTimer' = Len(timers) + 1
        /\ timers'[debounceTimer'].state = "armed"
        /\ timers'[debounceTimer'].age = 0
        /\ \A t \in DOMAIN timers : timers'[t].state # "armed"

C6_SingleTimer == []C6_ArmedInv /\ [][C6_Replace]_vars

\* an event has stopped an armed timer and armed a new one
C6_Witness ==
    /\ loopPc = "unlock"
    /\ debounceTimer = 2
    /\ timers[1].state = "stopped"
    /\ timers[2].state = "armed"

\* C7: a failed run is only logged: the loop ends only on the signal (or when
\* the watch cannot be attached at startup), the step in which a run fails
\* changes nothing of the loop, and a failed initial generation lets the loop
\* start.
C7_LoopInv ==
    /\ LoopEnded => exitReason \in {"signal", "attach"}
    /\ exitReason = "attach" => loopPc = "failed" /\ timers = <<>>

C7_FailStep ==
    \A r \in DOMAIN runs :
        (runs[r].pc = "running" /\ runs'[r].pc = "err") =>
            UNCHANGED <<loopPc, exitReason, events, watched, timerMu, debounceTimer,
                        timers, output>>

C7_FailureOnlyLogged == []C7_LoopInv /\ [][C7_FailStep]_vars

\* the initial generation failed, a run failed, and an event that came after
\* that failure armed a timer whose run succeeded
C7_Witness ==
    /\ initErr
    /\ loopPc = "select"
    /\ \E r \in DOMAIN runs :
          /\ runs[r].pc = "ok"
          /\ timers[runs[r].timer].errsBefore > 0

(***************************************************************************)
(* Part II.  One call of GenerateFromFile.                                 *)
(*                                                                         *)
(* Strings (keys, values, environment names and values, file names) are    *)
(* sequences of one-character strings, so that prefixes, upper-casing,     *)
(* trimming, splitting and number parsing are computed.  A value of the    *)
(* parsed TOML tree is a record whose field k is the Go type the decoder   *)
(* gave it ("str", "int", "float", "bool", "map" for map[string]any,      *)
(* "arr" for []any, "aot" for []map[string]any); a table is a function    *)
(* from keys to values.                                                    *)
(***************************************************************************)
\* the most changes the referenced files undergo during one call
MaxFileChanges == 1

\* the MaxFileSize option, in bytes, of the calls that set one
SmallLimit == 2

DefaultMaxFileSize == 1048576

\* a value: k is its type, and the field of that type holds it (s a string,
\* n an integer, b a boolean, m the table of a map, q the elements of a slice;
\* the elements of a []map[string]any are held as values of type "map")
Value(k, s, n, b, m, q) == [k |-> k, s |-> s, n |-> n, b |-> b, m |-> m, q |-> q]

StrV(s) == Value("str", s, 0, FALSE, NoTable, <<>>)

IntV(n) == Value("int", <<>>, n, FALSE, NoTable, <<>>)

FloatV(s) == Value("float", s, 0, FALSE, NoTable, <<>>)

BoolV(b) == Value("bool", <<>>, 0, b, NoTable, <<>>)

MapV(t) == Value("map", <<>>, 0, FALSE, t, <<>>)

ArrV(q) == Value("arr", <<>>, 0, FALSE, NoTable, q)

AotV(ts) == Value("aot", <<>>, 0, FALSE, NoTable, [i \in 1..Len(ts) |-> MapV(ts[i])])

Err(m, key, path) == [msg |-> m, key |-> key, path |-> path]

\* fmt.Errorf("...: %w", err)
Wrap(m, e) == [e EXCEPT !.msg = m \o @]

Min(S) == CHOOSE x \in S : \A y \in S : x <= y

(***************************************************************************)
(* package strings                                                         *)
(***************************************************************************)
HasPrefix(s, p) == Len(s) >= Len(p) /\ SubSeq(s, 1, Len(p)) = p

TrimPrefix(s, p) == IF HasPrefix(s, p) THEN SubSeq(s, Len(p) + 1, Len(s)) ELSE s

UpperOf ==
    [c \in {"a", "b", "e", "f", "g", "i", "k", "l", "m", "r", "t", "u", "x"} |->
        CASE c = "a" -> "A" [] c = "b" -> "B" [] c = "e" -> "E" [] c = "f" -> "F"
          [] c = "g" -> "G" [] c = "i" -> "I" [] c = "k" -> "K" [] c = "l" -> "L"
          [] c = "m" -> "M" [] c = "r" -> "R" [] c = "t" -> "T" [] c = "u" -> "U"
          [] c = "x" -> "X"]

ToUpper(s) == [i \in 1..Len(s) |-> IF s[i] \in DOMAIN UpperOf THEN UpperOf[s[i]] ELSE s[i]]

IsSpace(c) == c \in {" ", "\t", "\n", "\r"}

\* s from the first to the last of the indices of keep
TrimTo(s, keep) ==
    IF keep = {} THEN <<>> ELSE SubSeq(s, Min(keep), CHOOSE x \in keep : \A y \in keep : y <= x)

TrimSpace(s) == TrimTo(s, {i \in 1..Len(s) : ~IsSpace(s[i])})

RECURSIVE Split(_)
\* s cut at the first of the commas, and the rest split again
SplitAt(s, commas) ==
    IF commas = {} THEN <<s>>
    ELSE <<SubSeq(s, 1, Min(commas) - 1)>> \o Split(SubSeq(s, Min(commas) + 1, Len(s)))

\* strings.Split(s, ",")
Split(s) == SplitAt(s, {i \in 1..Len(s) : s[i] = ","})

(***************************************************************************)
(* package strconv.  The environment values of the model are a few         *)
(* characters long, so a number out of the 64-bit range does not occur.    *)
(***************************************************************************)
Digits == {"0", "1", "2", "3", "4", "5", "6", "7", "8", "9"}

DigitVal(c) ==
    CASE c = "0" -> 0 [] c = "1" -> 1 [] c = "2" -> 2 [] c = "3" -> 3 [] c = "4" -> 4
      [] c = "5" -> 5 [] c = "6" -> 6 [] c = "7" -> 7 [] c = "8" -> 8 [] c = "9" -> 9

IsDigits(s) == Len(s) > 0 /\ \A i \in 1..Len(s) : s[i] \in Digits

RECURSIVE NatVal(_)
NatVal(s) ==
    IF s = <<>> THEN 0 ELSE NatVal(SubSeq(s, 1, Len(s) - 1)) * 10 + DigitVal(s[Len(s)])

HasSign(s) == Len(s) > 0 /\ s[1] \in {"+", "-"}

\* the number that a sign and a run of digits denote
Signed(negative, digits) ==
    IF ~IsDigits(digits) THEN [ok |-> FALSE, v |-> 0]
    ELSE [ok |-> TRUE, v |-> IF negative THEN 0 - NatVal(digits) ELSE NatVal(digits)]

\* strconv.ParseInt(s, 10, 64)
ParseInt(s) == Signed(HasSign(s) /\ s[1] = "-", IF HasSign(s) THEN Tail(s) ELSE s)

\* the first index from i on that holds no digit
SkipTo(s, stops) == IF stops = {} THEN Len(s) + 1 ELSE Min(stops)

SkipDigits(s, i) == SkipTo(s, {j \in i..Len(s) : s[j] \notin Digits})

\* the mantissa starts at i0 and its leading digits end before i1: whether it
\* has a digit, and where it ends
Mantissa(s, i0, i1) ==
    IF i1 <= Len(s) /\ s[i1] = "."
    THEN [ok |-> i1 > i0 \/ SkipDigits(s, i1 + 1) > i1 + 1, end |-> SkipDigits(s, i1 + 1)]
    ELSE [ok |-> i1 > i0, end |-> i1]

\* the end of an exponent whose digits start at j0, 0 if it has none
ExponentDigits(s, j0) == IF SkipDigits(s, j0) > j0 THEN SkipDigits(s, j0) ELSE 0

\* the end of the optional exponent that starts at i
Exponent(s, i) ==
    IF i <= Len(s) /\ s[i] \in {"e", "E"}
    THEN ExponentDigits(s, IF i + 1 <= Len(s) /\ s[i + 1] \in {"+", "-"} THEN i + 2 ELSE i + 1)
    ELSE i

FloatSyntax(s, mant) == mant.ok /\ Exponent(s, mant.end) = Len(s) + 1

FloatFrom(s, i0) == FloatSyntax(s, Mantissa(s, i0, SkipDigits(s, i0)))

\* strconv.ParseFloat(s, 64), for decimal numbers with an optional exponent
ParseFloat(s) == [ok |-> FloatFrom(s, IF HasSign(s) THEN 2 ELSE 1), v |-> s]

\* strconv.ParseBool(s)
ParseBool(s) ==
    IF s \in {<<"1">>, <<"t">>, <<"T">>, <<"T", "R", "U", "E">>, <<"t", "r", "u", "e">>,
              <<"T", "r", "u", "e">>}
    THEN [ok |-> TRUE, v |-> TRUE]
    ELSE IF s \in {<<"0">>, <<"f">>, <<"F">>, <<"F", "A", "L", "S", "E">>,
                   <<"f", "a", "l", "s", "e">>, <<"F", "a", "l", "s", "e">>}
    THEN [ok |-> TRUE, v |-> FALSE]
    ELSE [ok |-> FALSE, v |-> FALSE]

(***************************************************************************)
(* internal/envoverride                                                    *)
(***************************************************************************)
\* os.Getenv: an unset variable reads as the empty string
Getenv(env, k) == IF k \in DOMAIN env THEN env[k] ELSE <<>>

\* the result of a conversion: the parsed value, or the error
Converted(r, v, originalVal, why) ==
    IF r.ok THEN [ok |-> TRUE, v |-> v, why |-> <<>>]
    ELSE [ok |-> FALSE, v |-> originalVal, why |-> why]

convertInt(r, originalVal) == Converted(r, IntV(r.v), originalVal, <<"expected integer">>)

convertFloat(r, originalVal) == Converted(r, FloatV(r.v), originalVal, <<"expected float">>)

convertBool(r, originalVal) == Converted(r, BoolV(r.v), originalVal, <<"expected boolean">>)

convertValue(envVal, originalVal) ==
    CASE originalVal.k = "str" -> [ok |-> TRUE, v |-> StrV(envVal), why |-> <<>>]
      [] originalVal.k = "int" -> convertInt(ParseInt(envVal), originalVal)
      [] originalVal.k = "float" -> convertFloat(ParseFloat(envVal), originalVal)
      [] originalVal.k = "bool" -> convertBool(ParseBool(envVal), originalVal)
      [] OTHER -> [ok |-> TRUE, v |-> StrV(envVal), why |-> <<>>]

\* the slice of the converted parts, or the error of the first part that has one
convertedArray(converted, failed) ==
    IF failed # {}
    THEN [ok |-> FALSE, v |-> ArrV(<<>>), why |-> converted[Min(failed)].why]
    ELSE [ok |-> TRUE, v |-> ArrV([i \in DOMAIN converted |-> converted[i].v]), why |-> <<>>]

convertParts(converted) ==
    convertedArray(converted, {i \in DOMAIN converted : ~converted[i].ok})

convertSplit(parts, sampleElem) ==
    convertParts([i \in DOMAIN parts |-> convertValue(TrimSpace(parts[i]), sampleElem)])

convertArray(envVal, sampleElem) == convertSplit(Split(envVal), sampleElem)

\* what a branch that converts does with the key: errs is the error it
\* returns, if any, and val the value the key holds afterwards
Override(c, why, envKey, value) ==
    IF c.ok THEN [errs |-> {}, val |-> c.v]
    ELSE [errs |-> {Err(why \o c.why, envKey, <<>>)}, val |-> value]

\* overrideValue without the test that the variable holds a value
overrideValueUnguarded(envVal, envKey, value) ==
    Override(convertValue(envVal, value), <<"invalid value for">>, envKey, value)

\* the default branch of Apply and of applyNested
overrideValue(envVal, envKey, value) ==
    IF envVal = <<>> THEN [errs |-> {}, val |-> value]
    ELSE Override(convertValue(envVal, value), <<"invalid value for">>, envKey, value)

\* the []any branch of applyNested
overrideArray(envVal, envKey, value) ==
    IF envVal = <<>> \/ Len(value.q) = 0 THEN [errs |-> {}, val |-> value]
    ELSE Override(convertArray(envVal, value.q[1]), <<"invalid array value for">>,
                  envKey, value)

\* errs holds the error of every key whose branch returns one: the map is
\* ranged over in any order, so the call may return any of them; tree is the
\* map after a call that returned nil
Applied(res) ==
    [errs |-> UNION {res[key].errs : key \in DOMAIN res},
     tree |-> [key \in DOMAIN res |-> res[key].val]]

\* the result of a nested call, as the outcome of its key
Section(r, why) == [errs |-> {Wrap(why, e) : e \in r.errs}, val |-> MapV(r.tree)]

RECURSIVE applyNested(_, _, _)
\* the body of the loop of applyNested
applyNestedKey(value, envKey, env) ==
    CASE value.k = "map" -> Section(applyNested(value.m, envKey, env), <<>>)
      [] value.k = "arr" -> overrideArray(Getenv(env, envKey), envKey, value)
      [] OTHER -> overrideValue(Getenv(env, envKey), envKey, value)

\* applyNested with the key appended to the prefix without the underscore
applyNestedUnjoined(data, prefix, env) ==
    Applied([key \in DOMAIN data |->
                applyNestedKey(data[key], prefix \o ToUpper(key), env)])

applyNested(data, prefix, env) ==
    Applied([key \in DOMAIN data |->
                applyNestedKey(data[key], prefix \o <<"_">> \o ToUpper(key), env)])

\* the body of the loop of Apply
ApplyKey(value, prefix, env) ==
    CASE value.k = "map" -> Section(applyNested(value.m, prefix, env), <<"error in section">>)
      [] OTHER -> overrideValue(Getenv(env, prefix), prefix, value)

Apply(data, env) ==
    Applied([key \in DOMAIN data |->
                ApplyKey(data[key], <<"C", "O", "N", "F", "I", "G", "_">> \o ToUpper(key), env)])

(***************************************************************************)
(* The loader of file references.  fs gives, for every file name of the    *)
(* input directory, whether the file exists, whether it can be read, its   *)
(* size and its bytes.                                                     *)
(***************************************************************************)
PrefixFile == <<"f", "i", "l", "e", ":">>

isFileReference(s) == HasPrefix(s, PrefixFile)

\* loadResolved with a limit that a file of exactly that size exceeds
loadResolvedInclusive(resolvedPath, fs, maxFileSize) ==
    IF ~(resolvedPath \in DOMAIN fs /\ fs[resolvedPath].exists)
    THEN [err |-> Err(<<"file not found">>, <<>>, resolvedPath), content |-> <<>>]
    ELSE IF maxFileSize > 0 /\ fs[resolvedPath].size >= maxFileSize
    THEN [err |-> Err(<<"exceeds max size">>, <<>>, resolvedPath), content |-> <<>>]
    ELSE IF ~fs[resolvedPath].readable
    THEN [err |-> Err(<<"failed to read file">>, <<>>, resolvedPath), content |-> <<>>]
    ELSE [err |-> NoErr, content |-> fs[resolvedPath].data]

\* loadFileContent from the resolved path on
loadResolved(resolvedPath, fs, maxFileSize) ==
    IF ~(resolvedPath \in DOMAIN fs /\ fs[resolvedPath].exists)
    THEN [err |-> Err(<<"file not found">>, <<>>, resolvedPath), content |-> <<>>]
    ELSE IF maxFileSize > 0 /\ fs[resolvedPath].size > maxFileSize
    THEN [err |-> Err(<<"exceeds max size">>, <<>>, resolvedPath), content |-> <<>>]
    ELSE IF ~fs[resolvedPath].readable
    THEN [err |-> Err(<<"failed to read file">>, <<>>, resolvedPath), content |-> <<>>]
    ELSE [err |-> NoErr, content |-> fs[resolvedPath].data]

loadFileContent(filePath, fs, maxFileSize) ==
    loadResolved(TrimPrefix(filePath, PrefixFile), fs, maxFileSize)

(***************************************************************************)
(* Validation of the file references.  The result is the set of errors the *)
(* call may return (empty: it returns nil): a map is ranged over in any    *)
(* order, a slice in its order.                                            *)
(***************************************************************************)
\* the error of the first element of a slice that has one
FirstOf(errs, bad) == IF bad = {} THEN {} ELSE errs[Min(bad)]

FirstErr(errs) == FirstOf(errs, {i \in DOMAIN errs : errs[i] # {}})

\* the error of a load, if it has one
ErrOf(res) == IF res.err # NoErr THEN {res.err} ELSE {}

RECURSIVE validateFileReferences(_, _, _), validateFileReferencesValue(_, _, _)
\* validateFileReferencesValue, looking at the first table only of an array
\* of tables
validateFirstTableOnly(v, fs, maxFileSize) ==
    CASE v.k = "str" ->
            IF isFileReference(v.s) THEN ErrOf(loadFileContent(v.s, fs, maxFileSize)) ELSE {}
      [] v.k = "map" -> validateFileReferences(v.m, fs, maxFileSize)
      [] v.k = "arr" ->
            FirstErr([i \in 1..Len(v.q) |-> validateFileReferencesValue(v.q[i], fs, maxFileSize)])
      [] v.k = "aot" ->
            FirstErr([i \in 1..(IF Len(v.q) > 0 THEN 1 ELSE 0) |->
                          validateFileReferences(v.q[i].m, fs, maxFileSize)])
      [] OTHER -> {}

validateFileReferencesValue(v, fs, maxFileSize) ==
    CASE v.k = "str" ->
            IF isFileReference(v.s) THEN ErrOf(loadFileContent(v.s, fs, maxFileSize)) ELSE {}
      [] v.k = "map" -> validateFileReferences(v.m, fs, maxFileSize)
      [] v.k = "arr" ->
            FirstErr([i \in 1..Len(v.q) |-> validateFileReferencesValue(v.q[i], fs, maxFileSize)])
      [] v.k = "aot" ->
            FirstErr([i \in 1..Len(v.q) |-> validateFileReferences(v.q[i].m, fs, maxFileSize)])
      [] OTHER -> {}

validateFileReferences(data, fs, maxFileSize) ==
    UNION {validateFileReferencesValue(data[key], fs, maxFileSize) : key \in DOMAIN data}

(***************************************************************************)
(* Emission in static mode.  Each operator gives the file references the   *)
(* function of its name hands to writeValueWithIndent, which loads them    *)
(* again; the source text is modelled by the tree it was emitted from and, *)
(* for every reference loaded, what the load returned.                     *)
(***************************************************************************)
RECURSIVE writeValue(_)
writeValue(v) ==
    CASE v.k = "str" -> IF isFileReference(v.s) THEN {v.s} ELSE {}
      [] v.k = "arr" -> UNION {writeValue(v.q[i]) : i \in 1..Len(v.q)}
      [] OTHER -> {}

\* a struct literal per element, a field per key
writeArrayOfStructs(arr) ==
    UNION {IF arr.q[i].k = "map"
           THEN UNION {writeValue(arr.q[i].m[key]) : key \in DOMAIN arr.q[i].m}
           ELSE {} : i \in 1..Len(arr.q)}

RECURSIVE generateStructInit(_)
\* the body of the loop of generateStructInit
structField(value) ==
    CASE value.k = "map" -> generateStructInit(value.m)
      [] value.k = "arr" ->
            IF Len(value.q) > 0 /\ value.q[1].k = "map"
            THEN writeArrayOfStructs(value)
            ELSE writeValue(value)
      [] value.k = "aot" -> writeArrayOfStructs(value)
      [] OTHER -> writeValue(value)

generateStructInit(data) == UNION {structField(data[key]) : key \in DOMAIN data}

writeArrayOfTablesInit(arr) ==
    UNION {IF arr.q[i].k = "map" THEN generateStructInit(arr.q[i].m) ELSE {} :
              i \in 1..Len(arr.q)}

\* the body of the loop that writes the variables
topLevelVar(value) ==
    CASE value.k = "map" -> generateStructInit(value.m)
      [] value.k = "aot" -> writeArrayOfTablesInit(value)
      [] value.k = "arr" ->
            IF Len(value.q) > 0 /\ value.q[1].k = "map"
            THEN writeArrayOfTablesInit(value)
            ELSE writeValue(value)
      [] OTHER -> writeValue(value)

generateStructsAndVars(data) == UNION {topLevelVar(data[key]) : key \in DOMAIN data}

\* what writeValueWithIndent writes for a file reference: the bytes of the
\* file, or an empty literal with the error in a comment
writeValueWithIndent(ref, fs, maxFileSize) ==
    [ref |-> ref, res |-> loadFileContent(ref, fs, maxFileSize)]

(***************************************************************************)
(* The calls the model makes: trees, environments and referenced files.    *)
(***************************************************************************)
KeyA == <<"a">>

KeyB == <<"b">>

RefA == PrefixFile \o KeyA

RefB == PrefixFile \o KeyB

Plain == <<"x">>

\* trees with file references: at top level, in a nested table, second in
\* an array of scalars, in the second table of an array of tables, in a
\* []any of tables, in a table below an array of tables, and two references
FileTrees ==
    { (KeyA :> StrV(RefA)),
      (KeyA :> MapV((KeyB :> StrV(RefA)))),
      (KeyA :> ArrV(<<StrV(Plain), StrV(RefA)>>)),
      (KeyA :> AotV(<<(KeyB :> StrV(Plain)), (KeyB :> StrV(RefA))>>)),
      (KeyA :> ArrV(<<MapV((KeyB :> StrV(RefA)))>>)),
      (KeyA :> MapV((KeyB :> AotV(<<(KeyA :> StrV(Plain)), (KeyA :> StrV(RefA))>>)))),
      (KeyA :> StrV(RefA)) @@ (KeyB :> StrV(RefB)),
      (KeyA :> StrV(Plain)) }

\* trees for the overrides: scalars and arrays, at top level and nested, a
\* scalar three tables deep, a duration, and arrays of tables
EnvTrees ==
    { (KeyA :> IntV(5)),
      (KeyA :> BoolV(TRUE)),
      (KeyA :> FloatV(<<"1", ".", "5">>)),
      (KeyA :> StrV(Plain)),
      (KeyA :> ArrV(<<IntV(1), IntV(2)>>)),
      (KeyA :> MapV((KeyB :> IntV(5)))),
      (KeyA :> MapV((KeyB :> BoolV(TRUE)))),
      (KeyA :> MapV((KeyB :> FloatV(<<"1", ".", "5">>)))),
      (KeyA :> MapV((KeyB :> ArrV(<<IntV(1), IntV(2)>>)))),
      (KeyA :> MapV((KeyB :> ArrV(<<>>)))),
      (KeyA :> IntV(5)) @@ (KeyB :> MapV((KeyA :> BoolV(TRUE)))),
      (KeyA :> MapV((KeyB :> MapV((KeyA :> IntV(5)))))),
      (KeyA :> MapV((KeyB :> StrV(<<"2", "s">>)))),
      (KeyA :> AotV(<<(KeyB :> IntV(5))>>)),
      (KeyA :> MapV((KeyB :> AotV(<<(KeyA :> IntV(5))>>)))) }

EnvKeys ==
    { <<"C", "O", "N", "F", "I", "G", "_", "A">>,
      <<"C", "O", "N", "F", "I", "G", "_", "A", "_", "B">>,
      <<"C", "O", "N", "F", "I", "G", "_", "B", "_", "A">>,
      <<"C", "O", "N", "F", "I", "G", "_", "A", "_", "B", "_", "A">> }

\* the values of the variables; a variable may be set to the empty string
EnvValues ==
    { <<"1", "2">>, <<"-", "7">>, <<"x">>, <<"t", "r", "u", "e">>, <<"2", ".", "5">>,
      <<"1", "e">>, <<"1", ",", " ", "2">>, <<"1", ",", "x">>, <<"3", "m">>, <<>> }

\* no variable set, one set, or the two that name the keys of the last tree
Envs ==
    {<<>>}
      \cup {(k :> v) : k \in EnvKeys, v \in EnvValues}
      \cup {(<<"C", "O", "N", "F", "I", "G", "_", "A">> :> <<"x">>)
              @@ (<<"C", "O", "N", "F", "I", "G", "_", "B", "_", "A">> :> <<"x">>)}

FileNames == {KeyA, KeyB}

\* no file of that name
NoFile == [exists |-> FALSE, readable |-> FALSE, size |-> 0, data |-> <<>>]

\* a file of n bytes
FileOf(readable, n) ==
    [exists |-> TRUE, readable |-> readable, size |-> n, data |-> [i \in 1..n |-> i]]

FileStates ==
    { NoFile, FileOf(TRUE, SmallLimit), FileOf(TRUE, SmallLimit + 1),
      FileOf(FALSE, SmallLimit) }

GoodFile == FileOf(TRUE, SmallLimit)

Options(state, tree, outputFile, enableEnv, maxFileSize) ==
    [isNil |-> FALSE, outputFile |-> outputFile, input |-> [state |-> state, tree |-> tree],
     enableEnv |-> enableEnv, maxFileSize |-> maxFileSize]

\* lines 135-138 of GenerateFromFile
maxFileSizeOf(opts) ==
    IF opts.maxFileSize = 0 THEN DefaultMaxFileSize ELSE opts.maxFileSize

(***************************************************************************)
(* GenerateFromFile, step by step.  gpc is the position of the call:       *)
(* "call" before it runs, "generate" at the call of GenerateWithOptions,   *)
(* "emit" after the validation of the file references, "write" with the    *)
(* source text in hand, "done" when it has returned gerr.                  *)
(***************************************************************************)
\* the watch loop is not part of this specification
WatchOff ==
    /\ loopPc = "off"
    /\ exitReason = ""
    /\ initErr = FALSE
    /\ events = <<>>
    /\ file = [exists |-> TRUE, ver |-> 1, valid |-> TRUE]
    /\ fsOps = 0
    /\ watched = FALSE
    /\ watcherClosed = FALSE
    /\ ctxDone = FALSE
    /\ sigPending = FALSE
    /\ timerMu = FALSE
    /\ debounceTimer = 0
    /\ timers = <<>>
    /\ runs = <<>>
    /\ readdInProgress = FALSE
    /\ retries = <<>>
    /\ removes = 0
    /\ output = 0

Return(e) ==
    /\ gpc' = "done"
    /\ gerr' = e

\* the checks of the options, the read and the parse of the input, and the
\* overrides
GenCall ==
    /\ gpc = "call"
    /\ IF gopts.isNil
       THEN Return(Err(<<"options cannot be nil">>, <<>>, <<>>)) /\ UNCHANGED gtree
       ELSE IF gopts.outputFile = <<>>
       THEN Return(Err(<<"output file is required">>, <<>>, <<>>)) /\ UNCHANGED gtree
       ELSE IF gopts.input.state = "missing"
       THEN Return(Err(<<"failed to read input file">>, <<>>, <<>>)) /\ UNCHANGED gtree
       ELSE IF gopts.input.state = "malformed"
       THEN Return(Err(<<"failed to parse TOML">>, <<>>, <<>>)) /\ UNCHANGED gtree
       ELSE IF gopts.enableEnv
       THEN \E r \in {Apply(gopts.input.tree, genv)} :
                IF r.errs # {}
                THEN /\ \E e \in r.errs :
                          Return(Wrap(<<"failed to apply environment overrides">>, e))
                     /\ UNCHANGED gtree
                ELSE /\ gtree' = r.tree
                     /\ gpc' = "generate"
                     /\ UNCHANGED gerr
       ELSE /\ gtree' = gopts.input.tree
            /\ gpc' = "generate"
            /\ UNCHANGED gerr
    /\ UNCHANGED <<gopts, genv, gfiles, gchanges, gbuf, gout, ghist, watchVars, fnVars>>

\* Generate validates the file references of the tree before it builds
\* anything
GenValidate ==
    /\ gpc = "generate"
    /\ \E errs \in {validateFileReferences(gtree, gfiles, maxFileSizeOf(gopts))} :
          IF errs # {}
          THEN \E e \in errs : Return(Wrap(<<"failed to generate code">>, e))
          ELSE gpc' = "emit" /\ UNCHANGED gerr
    /\ UNCHANGED <<gopts, genv, gfiles, gchanges, gtree, gbuf, gout, ghist, watchVars, fnVars>>

\* the struct types are collected and the variables are written: every file
\* reference is loaded again
GenEmit ==
    /\ gpc = "emit"
    /\ gbuf' = [tree |-> gtree,
                lits |-> {writeValueWithIndent(ref, gfiles, maxFileSizeOf(gopts)) :
                             ref \in generateStructsAndVars(gtree)}]
    /\ ghist' = [ghist EXCEPT !.collected = TRUE]
    /\ gpc' = "write"
    /\ UNCHANGED <<gopts, genv, gfiles, gchanges, gtree, gerr, gout, watchVars, fnVars>>

\* os.MkdirAll and os.WriteFile
GenWrite ==
    /\ gpc = "write"
    /\ gout' = [state |-> "written", src |-> gbuf]
    /\ gpc' = "done"
    /\ UNCHANGED <<gopts, genv, gfiles, gchanges, gtree, gbuf, gerr, ghist, watchVars, fnVars>>

\* while the call runs, somebody removes, replaces or locks a file
GenFileChange ==
    /\ gpc \in {"generate", "emit"}
    /\ gchanges < MaxFileChanges
    /\ \E f \in FileNames, st \in FileStates :
          /\ st # gfiles[f]
          /\ gfiles' = [gfiles EXCEPT ![f] = st]
    /\ gchanges' = gchanges + 1
    /\ UNCHANGED <<gpc, gopts, genv, gtree, gbuf, gerr, gout, ghist, watchVars, fnVars>>

GenInit ==
    /\ WatchOff
    /\ FnOff
    /\ gpc = "call"
    /\ gchanges = 0
    /\ gtree = NoTable
    /\ gbuf = NoSource
    /\ gerr = NoErr
    /\ gout \in {[state |-> "absent", src |-> NoSource], [state |-> "old", src |-> NoSource]}
    /\ ghist = [out0 |-> gout, collected |-> FALSE]
    /\ \/ /\ gopts \in {Options("ok", t, <<"o">>, TRUE, m) :
                            t \in FileTrees, m \in {0, SmallLimit}}
          /\ genv = <<>>
          /\ gfiles \in [FileNames -> FileStates]
          /\ gfiles[KeyB] # GoodFile => RefB \in generateStructsAndVars(gopts.input.tree)
       \/ /\ gopts \in {Options("ok", t, <<"o">>, e, 0) : t \in EnvTrees, e \in BOOLEAN}
          /\ genv \in Envs
          /\ gfiles = [f \in FileNames |-> GoodFile]
       \/ /\ gopts \in {[Options("ok", (KeyA :> StrV(RefA)), <<"o">>, TRUE, 0)
                            EXCEPT !.isNil = TRUE],
                        Options("ok", (KeyA :> StrV(RefA)), <<>>, TRUE, 0),
                        Options("missing", NoTable, <<"o">>, TRUE, 0),
                        Options("malformed", NoTable, <<"o">>, TRUE, 0)}
          /\ genv = <<>>
          /\ gfiles = [f \in FileNames |-> GoodFile]

GenNext ==
    \/ GenCall
    \/ GenValidate
    \/ GenEmit
    \/ GenWrite
    \/ GenFileChange

GenSpec == GenInit /\ [][GenNext]_vars

(***************************************************************************)
(* Claims about GenerateFromFile.                                          *)
(***************************************************************************)
GenFailed == gerr # NoErr

OutputUntouched == gout = ghist.out0

\* a file reference could not be loaded when emission read it again
EmitLoadFailed == \E l \in gbuf.lits : l.res.err # NoErr

\* C8: the output file is created or modified only when every earlier step
\* succeeded: a call in which a step failed, the load of a file reference
\* during emission included, returns an error and leaves the output file as it
\* was.
C8_OutputOnlyOnSuccess ==
    gpc = "done" =>
        /\ EmitLoadFailed => GenFailed
        /\ GenFailed => OutputUntouched
        /\ ~OutputUntouched => ~GenFailed /\ ~EmitLoadFailed

RECURSIVE Leaves(_, _)
\* the values of a tree that are not tables, each with the environment key of
\* its path: CONFIG, then the keys of the path in upper case, joined by "_"
Leaves(data, prefix) ==
    UNION {LET name == prefix \o <<"_">> \o ToUpper(key)
           IN  IF data[key].k = "map" THEN Leaves(data[key].m, name)
               ELSE {[key |-> name, node |-> data[key]]} : key \in DOMAIN data}

ParsesAs(kind, s) ==
    CASE kind = "int" -> ParseInt(s).ok
      [] kind = "float" -> ParseFloat(s).ok
      [] kind = "bool" -> ParseBool(s).ok
      [] OTHER -> TRUE

Typed == {"int", "float", "bool"}

\* the environment keys whose value does not parse as the type of the scalar,
\* or of the elements of the array, they name
Offending(tree, env) ==
    {l.key : l \in
        {x \in Leaves(tree, <<"C", "O", "N", "F", "I", "G">>) :
            /\ Getenv(env, x.key) # <<>>
            /\ \/ x.node.k \in Typed /\ ~ParsesAs(x.node.k, Getenv(env, x.key))
               \/ /\ x.node.k = "arr"
                  /\ Len(x.node.q) > 0
                  /\ x.node.q[1].k \in Typed
                  /\ \E i \in DOMAIN Split(Getenv(env, x.key)) :
                        ~ParsesAs(x.node.q[1].k, TrimSpace(Split(Getenv(env, x.key))[i]))}}

OverridesApplied ==
    /\ ~gopts.isNil
    /\ gopts.outputFile # <<>>
    /\ gopts.input.state = "ok"
    /\ gopts.enableEnv

\* C9: with overrides enabled, an environment value that does not parse as the
\* type of the scalar (or of the array elements) it names makes the call return
\* an error that names such a key, and no output file is written.
C9_BadOverrideFails ==
    (gpc = "done" /\ OverridesApplied /\ Offending(gopts.input.tree, genv) # {}) =>
        /\ GenFailed
        /\ gerr.key \in Offending(gopts.input.tree, genv)
        /\ OutputUntouched

RECURSIVE AllStrings(_)
\* every string of a value, whatever its position
AllStrings(v) ==
    CASE v.k = "str" -> {v.s}
      [] v.k = "map" -> UNION {AllStrings(v.m[key]) : key \in DOMAIN v.m}
      [] v.k \in {"arr", "aot"} -> UNION {AllStrings(v.q[i]) : i \in 1..Len(v.q)}
      [] OTHER -> {}

\* the file references of the tree that are missing or larger than the limit
BadRefs(tree, fs, limit) ==
    {s \in AllStrings(MapV(tree)) :
        /\ HasPrefix(s, PrefixFile)
        /\ LET f == fs[SubSeq(s, Len(PrefixFile) + 1, Len(s))]
           IN  ~f.exists \/ f.size > limit}

\* C10: validation finds a missing or oversized file reference wherever it is
\* in the tree; the call then returns the loader's error for a reference that
\* does not load, and it has collected no struct type, emitted no source text
\* and produced no output file.
C10_ValidateStep ==
    (gpc = "generate" /\ gpc' # "generate"
        /\ BadRefs(gtree, gfiles, maxFileSizeOf(gopts)) # {}) =>
        /\ gpc' = "done"
        /\ \E s \in AllStrings(MapV(gtree)) :
              /\ isFileReference(s)
              /\ loadFileContent(s, gfiles, maxFileSizeOf(gopts)).err # NoErr
              /\ gerr' = Wrap(<<"failed to generate code">>,
                              loadFileContent(s, gfiles, maxFileSizeOf(gopts)).err)
        /\ ~ghist'.collected
        /\ gbuf' = NoSource
        /\ gout' = ghist'.out0

Call(name, result) ==
    /\ fpc = "in"
    /\ fn = name
    /\ fout' = result
    /\ fpc' = "out"
    /\ UNCHANGED <<fn, fin, watchVars, genVars>>

\* the function name has returned
Returned(name) == fpc = "out" /\ fn = name

\* the largest file, and the largest limit, of the calls of loadFileContent
MaxLoadSize == 3

\* the arguments of loadFileContent: the reference, the files of the input
\* directory (one file, or none) and the generator's maxFileSize
LoadInputs ==
    [path : {RefA},
     fs   : {(KeyA :> f) : f \in {NoFile} \cup {FileOf(r, n) : r \in BOOLEAN, n \in 0..MaxLoadSize}},
     max  : -1..MaxLoadSize]

CallLoadFileContent ==
    Call("loadFileContent", loadFileContent(fin.path, fin.fs, fin.max))

(***************************************************************************)
(* package time.  A Duration is a count of nanoseconds; it is held as its  *)
(* sign, its whole seconds s and the nanoseconds n < 10^9 beyond them.     *)
(***************************************************************************)
NanosPerSecond == 1000000000

Duration(neg, s, n) == [neg |-> neg, s |-> s, n |-> n]

ZeroDuration == Duration(FALSE, 0, 0)

Nanosecond == Duration(FALSE, 0, 1)

Microsecond == Duration(FALSE, 0, 1000)

Millisecond == Duration(FALSE, 0, 1000000)

Second == Duration(FALSE, 1, 0)

Minute == Duration(FALSE, 60, 0)

Hour == Duration(FALSE, 3600, 0)

\* d + e, of two durations that are not negative
DurAdd(d, e) ==
    Duration(FALSE, d.s + e.s + ((d.n + e.n) \div NanosPerSecond), (d.n + e.n) % NanosPerSecond)

\* -d
DurNeg(d) == IF d = ZeroDuration THEN d ELSE [d EXCEPT !.neg = ~d.neg]

\* count * unit, for a count that is not negative and one of the six units
DurMul(count, unit) ==
    IF unit.s > 0
    THEN Duration(FALSE, count * unit.s, 0)
    ELSE Duration(FALSE, count \div (NanosPerSecond \div unit.n),
                  (count % (NanosPerSecond \div unit.n)) * unit.n)

\* d >= unit
DurGE(d, unit) == ~d.neg /\ (d.s > unit.s \/ (d.s = unit.s /\ d.n >= unit.n))

\* d / unit, for d >= 0
DurDiv(d, unit) ==
    IF unit.s > 0
    THEN d.s \div unit.s
    ELSE d.s * (NanosPerSecond \div unit.n) + (d.n \div unit.n)

\* d % unit, for d >= 0
DurMod(d, unit) ==
    IF unit.s > 0
    THEN Duration(FALSE, d.s % unit.s, d.n)
    ELSE Duration(FALSE, 0, d.n % unit.n)

RECURSIVE Pow10(_)
Pow10(k) == IF k = 0 THEN 1 ELSE 10 * Pow10(k - 1)

\* uint64(float64(f) * (float64(unit) / scale)): the fraction f / scale of a unit
DurFrac(f, scale, unit) ==
    IF unit.s > 0
    THEN Duration(FALSE, (f * unit.s) \div scale,
                  ((f * unit.s) % scale) * (NanosPerSecond \div scale))
    ELSE Duration(FALSE, 0, (f * unit.n) \div scale)

\* time.unitMap (the spellings of "us" with a micro sign are the same entry)
unitMap ==
    (<<"n", "s">> :> Nanosecond) @@ (<<"u", "s">> :> Microsecond) @@
    (<<"m", "s">> :> Millisecond) @@ (<<"s">> :> Second) @@
    (<<"m">> :> Minute) @@ (<<"h">> :> Hour)

NoDuration == [ok |-> FALSE, d |-> ZeroDuration]

\* where the fraction that may follow the leading digits ends: the digits
\* end before i
FractionEnd(s, i) == IF i <= Len(s) /\ s[i] = "." THEN SkipDigits(s, i + 1) ELSE i

\* where the unit that starts at j ends
UnitEnd(s, j) == SkipTo(s, {x \in j..Len(s) : s[x] \in Digits \cup {"."}})

\* the value of the digits, the fraction and the unit of one term
TermValue(digits, fraction, unit) ==
    IF fraction = <<>>
    THEN DurMul(NatVal(digits), unit)
    ELSE DurAdd(DurMul(NatVal(digits), unit),
                DurFrac(NatVal(fraction), Pow10(Len(fraction)), unit))

\* the first term of s: its digits end before i, its fraction before j and
\* its unit before k
TermAt(s, i, j, k) ==
    IF ~(s[1] = "." \/ s[1] \in Digits) THEN [ok |-> FALSE, d |-> ZeroDuration, rest |-> <<>>]
    ELSE IF i = 1 /\ j <= i + 1 THEN [ok |-> FALSE, d |-> ZeroDuration, rest |-> <<>>]
    ELSE IF k = j THEN [ok |-> FALSE, d |-> ZeroDuration, rest |-> <<>>]
    ELSE IF SubSeq(s, j, k - 1) \notin DOMAIN unitMap
    THEN [ok |-> FALSE, d |-> ZeroDuration, rest |-> <<>>]
    ELSE [ok   |-> TRUE,
          d    |-> TermValue(SubSeq(s, 1, i - 1), SubSeq(s, i + 1, j - 1),
                             unitMap[SubSeq(s, j, k - 1)]),
          rest |-> SubSeq(s, k, Len(s))]

TermFrom(s, i, j) == TermAt(s, i, j, UnitEnd(s, j))

FirstTerm(s) == TermFrom(s, SkipDigits(s, 1), FractionEnd(s, SkipDigits(s, 1)))

RECURSIVE ParseTerms(_, _)
\* the loop of time.ParseDuration: the terms of s added to d
AddTerm(term, d) ==
    IF ~term.ok THEN NoDuration ELSE ParseTerms(term.rest, DurAdd(d, term.d))

ParseTerms(s, d) == IF s = <<>> THEN [ok |-> TRUE, d |-> d] ELSE AddTerm(FirstTerm(s), d)

\* the duration of a string without its sign
ParseUnsigned(s) ==
    IF s = <<"0">> THEN [ok |-> TRUE, d |-> ZeroDuration]
    ELSE IF s = <<>> THEN NoDuration
    ELSE ParseTerms(s, ZeroDuration)

NegateIf(neg, p) == IF p.ok /\ neg THEN [p EXCEPT !.d = DurNeg(p.d)] ELSE p

\* time.ParseDuration(s)
ParseDuration(s) ==
    NegateIf(HasSign(s) /\ s[1] = "-", ParseUnsigned(IF HasSign(s) THEN Tail(s) ELSE s))

(***************************************************************************)
(* writeDurationLiteral                                                    *)
(***************************************************************************)
components ==
    << [unit |-> Hour,        name |-> "time.Hour"],
       [unit |-> Minute,      name |-> "time.Minute"],
       [unit |-> Second,      name |-> "time.Second"],
       [unit |-> Millisecond, name |-> "time.Millisecond"],
       [unit |-> Microsecond, name |-> "time.Microsecond"],
       [unit |-> Nanosecond,  name |-> "time.Nanosecond"] >>

RECURSIVE Decompose(_, _, _)
\* the loop over components from the i-th on: the parts "count*name"
Decompose(remaining, i, parts) ==
    IF i > Len(components) THEN parts
    ELSE IF DurGE(remaining, components[i].unit) /\ DurDiv(remaining, components[i].unit) > 0
    THEN Decompose(DurMod(remaining, components[i].unit), i + 1,
                   Append(parts, [count |-> DurDiv(remaining, components[i].unit),
                                  name  |-> components[i].name]))
    ELSE Decompose(remaining, i + 1, parts)

\* the literal written: the text "0", the text of an invalid duration, or
\* the parts joined with " + "
Joined(parts) ==
    IF parts = <<>> THEN [text |-> "0", parts |-> <<>>] ELSE [text |-> "sum", parts |-> parts]

DurationLiteral(p) ==
    IF ~p.ok THEN [text |-> "time.Duration(0) /* invalid */", parts |-> <<>>]
    ELSE IF p.d = ZeroDuration THEN [text |-> "0", parts |-> <<>>]
    ELSE Joined(Decompose(p.d, 1, <<>>))

writeDurationLiteral(s) == DurationLiteral(ParseDuration(s))

\* the unit that a part of a duration literal names, and its place among
\* the components
ComponentOf(name) == CHOOSE i \in 1..Len(components) : components[i].name = name

RECURSIVE LiteralValue(_)
\* the value of the sum that the parts of a literal denote
LiteralValue(parts) ==
    IF parts = <<>> THEN ZeroDuration
    ELSE DurAdd(LiteralValue(SubSeq(parts, 1, Len(parts) - 1)),
                DurMul(parts[Len(parts)].count, components[ComponentOf(parts[Len(parts)].name)].unit))

\* the most terms of a duration string
MaxTerms == 2

DurationNumbers == {<<"0">>, <<"2">>, <<"9", "0">>}

DurationFractions == {<<>>, <<".", "5">>}

DurationTerms ==
    {n \o f \o u : n \in DurationNumbers, f \in DurationFractions, u \in DOMAIN unitMap}

RECURSIVE TermStrings(_)
\* the strings of k terms
TermStrings(k) ==
    IF k = 0 THEN {<<>>} ELSE {t \o r : t \in DurationTerms, r \in TermStrings(k - 1)}

\* the strings given to writeDurationLiteral: signed strings of terms, and
\* strings that are no durations
DurationStrings ==
    {sign \o r : sign \in {<<>>, <<"-">>, <<"+">>},
                 r \in UNION {TermStrings(k) : k \in 0..MaxTerms} \cup {<<"0">>, <<"2">>, <<"x">>, <<".", "s">>}}

DurationInputs == [s : DurationStrings]

CallWriteDurationLiteral ==
    Call("writeDurationLiteral", writeDurationLiteral(fin.s))

(***************************************************************************)
(* writeByteArrayLiteral.  The buffer is the sequence of the strings       *)
(* written to it; a byte is a number in 0..255.                            *)
(***************************************************************************)
bytesPerLine == 12

HexDigits == <<"0", "1", "2", "3", "4", "5", "6", "7", "8", "9", "a", "b", "c", "d", "e", "f">>

\* fmt.Fprintf(buf, "0x%02x", b)
HexByte(b) == <<"0x", HexDigits[(b \div 16) + 1], HexDigits[(b % 16) + 1]>>

\* strings.Repeat(s, count)
Repeat(s, count) == [i \in 1..count |-> s]

\* the body of the loop, with a line break after every twelfth byte, the
\* last byte included
writeByteBreaking(buf, data, i, indentStr) ==
    buf \o (IF i % bytesPerLine = 0 THEN indentStr ELSE <<>>)
        \o HexByte(data[i + 1])
        \o (IF i < Len(data) - 1 THEN <<", ">> ELSE <<>>)
        \o (IF i % bytesPerLine = bytesPerLine - 1 THEN <<"\n">> ELSE <<>>)

\* the body of the loop, for the byte data[i] (i counts from 0)
writeByte(buf, data, i, indentStr) ==
    buf \o (IF i % bytesPerLine = 0 THEN indentStr ELSE <<>>)
        \o HexByte(data[i + 1])
        \o (IF i < Len(data) - 1 THEN <<", ">> ELSE <<>>)
        \o (IF i % bytesPerLine = bytesPerLine - 1 /\ i < Len(data) - 1 THEN <<"\n">> ELSE <<>>)

RECURSIVE writeBytes(_, _, _, _)
\* the loop from i on
writeBytes(buf, data, i, indentStr) ==
    IF i >= Len(data) THEN buf
    ELSE writeBytes(writeByte(buf, data, i, indentStr), data, i + 1, indentStr)

writeByteArrayLiteral(data, indent) ==
    IF Len(data) = 0 THEN <<"[]byte{}">>
    ELSE writeBytes(<<"[]byte{\n">>, data, 0, Repeat("\t", indent + 1))
            \o <<",\n">> \o Repeat("\t", indent) \o <<"}">>

\* the places of the byte tokens of a literal, and of its line ends
TokensOf(buf) == {i \in 1..Len(buf) : buf[i] = "0x"}

LineEndsOf(buf) == {i \in 1..Len(buf) : buf[i] \in {"[]byte{\n", "\n", ",\n"}}

\* the number that a hexadecimal digit denotes
HexVal(c) == (CHOOSE k \in 1..16 : HexDigits[k] = c) - 1

\* the byte that the token at place i denotes
TokenByte(buf, i) == 16 * HexVal(buf[i + 1]) + HexVal(buf[i + 2])

\* the bytes that the tokens of a literal denote, in their order
Decoded(buf) ==
    [k \in 1..Cardinality(TokensOf(buf)) |->
        TokenByte(buf, CHOOSE i \in TokensOf(buf) :
                           Cardinality({j \in TokensOf(buf) : j <= i}) = k)]

\* the number of tokens of the row between the line ends a and b
RowTokens(buf, a, b) == Cardinality({i \in TokensOf(buf) : a < i /\ i < b})

\* the most bytes of a file given to writeByteArrayLiteral
MaxBytes == 25

\* the byte sequences: every length, with bytes that start at b and go up
\* in steps of d
ByteInputs ==
    {[data   |-> [i \in 1..n |-> (b + (i - 1) * d) % 256],
      indent |-> t] : n \in 0..MaxBytes, b \in {0, 45, 250}, d \in {0, 1, 17}, t \in {0, 1}}

CallWriteByteArrayLiteral ==
    Call("writeByteArrayLiteral", writeByteArrayLiteral(fin.data, fin.indent))

(***************************************************************************)
(* toGoType.  A Go type is the sequence of the strings that spell it.      *)
(***************************************************************************)
\* a value of none of the types that toGoType knows (a TOML date or time)
TimeV(s) == Value("time", s, 0, FALSE, NoTable, <<>>)

isDurationString(s) == ParseDuration(s).ok

RECURSIVE toGoTypeOfLast(_)
\* toGoType with the element type of an array taken from its last element
toGoTypeOfLast(v) ==
    CASE v.k = "str" ->
            IF isFileReference(v.s) THEN <<"[]byte">>
            ELSE IF isDurationString(v.s) THEN <<"time.Duration">>
            ELSE <<"string">>
      [] v.k = "int" -> <<"int64">>
      [] v.k = "float" -> <<"float64">>
      [] v.k = "bool" -> <<"bool">>
      [] v.k = "arr" ->
            IF Len(v.q) > 0 THEN <<"[]">> \o toGoTypeOfLast(v.q[Len(v.q)]) ELSE <<"[]any">>
      [] v.k = "aot" -> <<"[]struct">>
      [] v.k = "map" -> <<"struct">>
      [] OTHER -> <<"any">>

RECURSIVE toGoType(_)
toGoType(v) ==
    CASE v.k = "str" ->
            IF isFileReference(v.s) THEN <<"[]byte">>
            ELSE IF isDurationString(v.s) THEN <<"time.Duration">>
            ELSE <<"string">>
      [] v.k = "int" -> <<"int64">>
      [] v.k = "float" -> <<"float64">>
      [] v.k = "bool" -> <<"bool">>
      [] v.k = "arr" ->
            IF Len(v.q) > 0 THEN <<"[]">> \o toGoType(v.q[1]) ELSE <<"[]any">>
      [] v.k = "aot" -> <<"[]struct">>
      [] v.k = "map" -> <<"struct">>
      [] OTHER -> <<"any">>

\* the longest array given to toGoType
MaxElems == 2

\* the values that are no arrays: strings of every class (a file reference
\* whose path reads as a duration among them), numbers, booleans, a date, a
\* table and an array of tables
TypedScalars ==
    { StrV(RefA), StrV(PrefixFile \o <<"2", "h">>), StrV(<<"2", "h">>), StrV(<<"-", "2", "s">>),
      StrV(<<"0">>), StrV(Plain), StrV(<<>>), StrV(<<"2">>),
      IntV(5), FloatV(<<"1", ".", "5">>), BoolV(TRUE), TimeV(<<"1", "9", "7", "9">>),
      MapV((KeyA :> IntV(5))), AotV(<<(KeyA :> IntV(5))>>) }

\* the arrays whose elements are no arrays
ArraysOf(S) == {ArrV(q) : q \in UNION {[1..n -> S] : n \in 0..MaxElems}}

\* the values given to toGoType: scalars, arrays of them, and arrays of
\* one array
TypedValues ==
    TypedScalars \cup ArraysOf(TypedScalars) \cup {ArrV(<<a>>) : a \in ArraysOf(TypedScalars)}

TypedInputs == [v : TypedValues]

CallToGoType == Call("toGoType", toGoType(fin.v))

(***************************************************************************)
(* The struct types: collectNestedStructs and generateStruct.  A name is   *)
(* the sequence of its characters.  The order of a range over a map is     *)
(* not fixed, so collectNestedStructs has a set of outcomes.               *)
(***************************************************************************)
Config == <<"C", "o", "n", "f", "i", "g">>

Item == <<"I", "t", "e", "m">>

HasSuffix(s, suffix) ==
    Len(s) >= Len(suffix) /\ SubSeq(s, Len(s) - Len(suffix) + 1, Len(s)) = suffix

\* stripSuffix(name): the name without its Config or Item
stripSuffix(name) ==
    IF HasSuffix(name, Config) THEN SubSeq(name, 1, Len(name) - Len(Config))
    ELSE IF HasSuffix(name, Item) THEN SubSeq(name, 1, Len(name) - Len(Item))
    ELSE name

\* the key with the first letter of each of its words in upper case
Capitalised(key) ==
    [i \in 1..Len(key) |->
        IF (i = 1 \/ key[i - 1] = "_") /\ key[i] \in DOMAIN UpperOf THEN UpperOf[key[i]] ELSE key[i]]

\* sx.PascalCase(key), for keys whose words are in lower case and joined by "_"
PascalCase(key) == SelectSeq(Capitalised(key), LAMBDA c : c # "_")

\* the characters of the keys and of the names, in byte order
CharOrder ==
    <<"A", "B", "C", "I", "X", "_", "a", "b", "c", "e", "f", "g", "i", "m", "n", "o", "t", "x">>

CharRank(c) == CHOOSE i \in 1..Len(CharOrder) : CharOrder[i] = c

RECURSIVE StringLess(_, _)
\* s < t, as Go compares strings
StringLess(s, t) ==
    IF s = <<>> THEN t # <<>>
    ELSE IF t = <<>> THEN FALSE
    ELSE IF s[1] = t[1] THEN StringLess(Tail(s), Tail(t))
    ELSE CharRank(s[1]) < CharRank(t[1])

LeastString(S) == CHOOSE s \in S : \A t \in S : s = t \/ StringLess(s, t)

RECURSIVE SortStrings(_)
\* sort.Strings of the strings of S
SortStrings(S) ==
    IF S = {} THEN <<>> ELSE <<LeastString(S)>> \o SortStrings(S \ {LeastString(S)})

RECURSIVE RangeOrders(_)
\* the orders in which a range may go over the keys S of a map
RangeOrders(S) ==
    IF S = {} THEN {<<>>}
    ELSE UNION {{<<k>> \o order : order \in RangeOrders(S \ {k})} : k \in S}

\* whether a value is an array of tables with a first table
HasFirstTable(val) == val.k \in {"arr", "aot"} /\ Len(val.q) > 0 /\ val.q[1].k = "map"

RECURSIVE collectNestedStructs(_, _, _)
RECURSIVE collectRange(_, _, _, _, _)
\* the body of the range of collectNestedStructs, for one key
collectKey(structs, name, key, val) ==
    IF val.k = "map"
    THEN collectNestedStructs(structs, stripSuffix(name) \o PascalCase(key) \o Config, val.m)
    ELSE IF HasFirstTable(val)
    THEN collectNestedStructs(structs, stripSuffix(name) \o PascalCase(key) \o Item, val.q[1].m)
    ELSE {structs}

\* the range of collectNestedStructs in one order, from its i-th key on: S
\* holds the maps that the keys before may have left
collectRange(S, name, data, order, i) ==
    IF i > Len(order) THEN S
    ELSE collectRange(UNION {collectKey(structs, name, order[i], data[order[i]]) : structs \in S},
                      name, data, order, i + 1)

\* collectNestedStructs without the test that the name is in the map
collectNestedStructsAgain(structs, name, data) ==
    UNION {collectRange({(name :> data) @@ structs}, name, data, order, 1) :
              order \in RangeOrders(DOMAIN data)}

\* the maps that collectNestedStructs(structs, name, data) may leave
collectNestedStructs(structs, name, data) ==
    IF name \in DOMAIN structs THEN {structs}
    ELSE UNION {collectRange({structs @@ (name :> data)}, name, data, order, 1) :
                    order \in RangeOrders(DOMAIN data)}

\* the body of the loop over the sorted top-level keys
collectTopKey(structs, key, val) ==
    IF val.k = "map"
    THEN collectNestedStructs(structs, PascalCase(key) \o Config, val.m)
    ELSE IF val.k = "aot" /\ Len(val.q) > 0
    THEN collectNestedStructs(structs, PascalCase(key) \o Item, val.q[1].m)
    ELSE {structs}

RECURSIVE collectTop(_, _, _, _)
collectTop(S, data, keys, i) ==
    IF i > Len(keys) THEN S
    ELSE collectTop(UNION {collectTopKey(structs, keys[i], data[keys[i]]) : structs \in S},
                    data, keys, i + 1)

\* the maps allStructs that the first loop of generateStructsAndVars may build
allStructs(data) == collectTop({NoTable}, data, SortStrings(DOMAIN data), 1)

\* the type of a field of the struct name
fieldType(name, fieldName, value) ==
    IF value.k = "map" THEN stripSuffix(name) \o PascalCase(fieldName) \o Config
    ELSE IF HasFirstTable(value) THEN <<"[]">> \o stripSuffix(name) \o PascalCase(fieldName) \o Item
    ELSE toGoType(value)

\* the fields that generateStruct writes, in the order fieldNames
structFields(name, fields, fieldNames) ==
    [i \in 1..Len(fieldNames) |->
        [name |-> PascalCase(fieldNames[i]),
         type |-> fieldType(name, fieldNames[i], fields[fieldNames[i]])]]

generateStruct(name, fields) ==
    [name |-> name, fields |-> structFields(name, fields, SortStrings(DOMAIN fields))]

\* the struct types written for the map structs, in the order structNames
structsText(structs, structNames) ==
    [i \in 1..Len(structNames) |-> generateStruct(structNames[i], structs[structNames[i]])]

\* what generateStructsAndVars may build and write before the variables:
\* the map allStructs and the struct types
generateStructs(data) ==
    {[structs |-> structs, text |-> structsText(structs, SortStrings(DOMAIN structs))] :
        structs \in allStructs(data)}

\* the most that the value of a leaf is
MaxLeaf == 2

KeyAB == <<"a", "_", "b">>

\* tables of one leaf
LeafTables == {(k :> IntV(n)) : k \in {KeyA, KeyB}, n \in 1..MaxLeaf}

\* a leaf, a table of T or an array of one table of T
NodesOver(T) == {IntV(1)} \cup {MapV(t) : t \in T} \cup {AotV(<<t>>) : t \in T}

\* tables with the key b
InnerTables == {(KeyB :> v) : v \in NodesOver(LeafTables)}

\* tables with the key a, and tables with the keys a and a_b
OuterTables ==
    {(KeyA :> v) : v \in NodesOver(InnerTables)}
      \cup {(KeyA :> v) @@ (KeyAB :> MapV(t)) :
               v \in NodesOver(InnerTables), t \in LeafTables \cup InnerTables}

\* arrays of two tables that differ, as the decoder gives them for [[a]]
TableArrays ==
    {AotV(<<p[1], p[2]>>) :
        p \in {q \in LeafTables \X (LeafTables \cup InnerTables) : q[1] # q[2]}}

\* the same as the decoder gives them for an inline array
InlineTableArrays == {ArrV(<<MapV(t), MapV(u)>>) : t \in LeafTables, u \in InnerTables}

\* the trees: the tables a.b and a_b at top level, and below the table b;
\* an array of two tables at top level, and below the table b
StructTrees ==
    OuterTables \cup {(KeyB :> MapV(t)) : t \in OuterTables}
      \cup {(KeyA :> v) : v \in TableArrays}
      \cup {(KeyB :> MapV((KeyA :> v))) : v \in TableArrays \cup InlineTableArrays}

StructInputs == [data : StructTrees]

\* generateStructsAndVars up to the struct types
CallGenerateStructs ==
    /\ fpc = "in"
    /\ fn = "generateStructsAndVars"
    /\ \E out \in generateStructs(fin.data) : Call("generateStructsAndVars", out)

(***************************************************************************)
(* Getter mode: the accessor that generateGetterMethods writes for a field *)
(* and the value it returns when the generated program runs.               *)
(***************************************************************************)
\* the values an accessor returns: a string, number or boolean, a
\* duration, bytes, a slice, or an empty struct
Returns(k, val, dur, bytes, elems) ==
    [k |-> k, val |-> val, dur |-> dur, bytes |-> bytes, elems |-> elems]

RetVal(v) == Returns("val", v, ZeroDuration, <<>>, <<>>)

RetDur(d) == Returns("dur", StrV(<<>>), d, <<>>, <<>>)

RetBytes(bytes) == Returns("bytes", StrV(<<>>), ZeroDuration, bytes, <<>>)

RetSlice(elems) == Returns("slice", StrV(<<>>), ZeroDuration, <<>>, elems)

RetStruct == Returns("struct", StrV(<<>>), ZeroDuration, <<>>, <<>>)

RECURSIVE writtenValue(_, _, _)
\* the value of the literal that writeValue writes for v
writtenValue(v, fs, maxFileSize) ==
    CASE v.k = "str" ->
            IF isFileReference(v.s)
            THEN IF loadFileContent(v.s, fs, maxFileSize).err # NoErr
                 THEN RetBytes(<<>>)
                 ELSE RetBytes(Decoded(writeByteArrayLiteral(
                                   loadFileContent(v.s, fs, maxFileSize).content, 0)))
            ELSE IF isDurationString(v.s)
            THEN RetDur(LiteralValue(writeDurationLiteral(v.s).parts))
            ELSE RetVal(v)
      [] v.k \in {"int", "float", "bool"} -> RetVal(v)
      [] v.k = "arr" -> RetSlice([i \in 1..Len(v.q) |-> writtenValue(v.q[i], fs, maxFileSize)])
      [] OTHER -> RetSlice(<<>>)

\* os.ReadFile(path) when the generated program runs
ReadFile(fs, path) ==
    IF path \in DOMAIN fs /\ fs[path].exists /\ fs[path].readable
    THEN [ok |-> TRUE, data |-> fs[path].data]
    ELSE [ok |-> FALSE, data |-> <<>>]

\* bytesGetter without the check of the read
bytesGetterUnchecked(v, read, default) ==
    IF v # <<>> THEN RetBytes(read.data) ELSE default

\* the accessor of a field of type []byte: v is the value of its variable
bytesGetter(v, read, default) ==
    IF v # <<>> /\ read.ok THEN RetBytes(read.data) ELSE default

\* scalarGetter with an array read from the variable
scalarGetterOfArrays(goType, v, default) ==
    IF v = <<>> THEN default
    ELSE CASE goType = <<"string">> -> RetVal(StrV(v))
           [] goType = <<"int64">> ->
                 IF ParseInt(v).ok THEN RetVal(IntV(ParseInt(v).v)) ELSE default
           [] goType = <<"float64">> ->
                 IF ParseFloat(v).ok THEN RetVal(FloatV(ParseFloat(v).v)) ELSE default
           [] goType = <<"bool">> ->
                 IF ParseBool(v).ok THEN RetVal(BoolV(ParseBool(v).v)) ELSE default
           [] goType = <<"time.Duration">> ->
                 IF ParseDuration(v).ok THEN RetDur(ParseDuration(v).d) ELSE default
           [] OTHER -> IF goType[1] = "[]" THEN RetSlice(<<RetVal(StrV(v))>>) ELSE default

\* the accessor of a field of another type
scalarGetter(goType, v, default) ==
    IF v = <<>> THEN default
    ELSE CASE goType = <<"string">> -> RetVal(StrV(v))
           [] goType = <<"int64">> ->
                 IF ParseInt(v).ok THEN RetVal(IntV(ParseInt(v).v)) ELSE default
           [] goType = <<"float64">> ->
                 IF ParseFloat(v).ok THEN RetVal(FloatV(ParseFloat(v).v)) ELSE default
           [] goType = <<"bool">> ->
                 IF ParseBool(v).ok THEN RetVal(BoolV(ParseBool(v).v)) ELSE default
           [] goType = <<"time.Duration">> ->
                 IF ParseDuration(v).ok THEN RetDur(ParseDuration(v).d) ELSE default
           [] OTHER -> default

\* what the accessor written by generateGetterMethod returns
generateGetterMethod(goType, v, default, runFs) ==
    IF goType = <<"[]byte">> THEN bytesGetter(v, ReadFile(runFs, v), default)
    ELSE scalarGetter(goType, v, default)

\* the body of the loop of generateGetterMethods: what the accessor of a
\* field returns in the environment env and with the files runFs
generateGetterMethods(value, envVarName, genFs, maxFileSize, env, runFs) ==
    IF value.k = "map" THEN RetStruct
    ELSE IF HasFirstTable(value) THEN RetSlice(<<>>)
    ELSE generateGetterMethod(toGoType(value), Getenv(env, envVarName),
                              writtenValue(value, genFs, maxFileSize), runFs)

\* the variable of the field b of the table a
EnvAB == <<"C", "O", "N", "F", "I", "G", "_", "A", "_", "B">>

\* the fields: scalars of every type, a table, arrays of scalars and arrays
\* of tables
GetterValues ==
    { StrV(Plain), StrV(<<"2", "h">>), StrV(<<"-", "2", "s">>), StrV(RefA),
      IntV(5), FloatV(<<"1", ".", "5">>), BoolV(TRUE),
      MapV((KeyA :> IntV(5))),
      ArrV(<<IntV(1), IntV(2)>>), ArrV(<<StrV(Plain)>>), ArrV(<<>>),
      ArrV(<<StrV(<<"2", "h">>), StrV(<<"-", "2", "s">>)>>),
      AotV(<<(KeyA :> IntV(5))>>), ArrV(<<MapV((KeyA :> IntV(5)))>>) }

\* the values of the variable when the program runs; "b" is the path of a file
GetterEnvValues ==
    { <<>>, <<"1", "2">>, <<"x">>, <<"t", "r", "u", "e">>, <<"2", ".", "5">>,
      <<"9", "0", "m">>, KeyB, <<"1", ",", "2">> }

GetterInputs ==
    [value  : GetterValues,
     name   : {EnvAB},
     genFs  : {(KeyA :> GoodFile)},
     env    : {<<>>} \cup {(EnvAB :> v) : v \in GetterEnvValues},
     runFs  : {(KeyB :> f) : f \in {NoFile, FileOf(TRUE, 1), FileOf(FALSE, 1)}}]

CallGetter ==
    Call("generateGetterMethods",
         generateGetterMethods(fin.value, fin.name, fin.genFs, DefaultMaxFileSize,
                               fin.env, fin.runFs))

(***************************************************************************)
(* needsTimeImport.  A map is ranged over in any order, so a call gives    *)
(* the set of the results it may return.                                   *)
(***************************************************************************)
RECURSIVE FirstTrue(_, _)
\* a loop over a sequence that returns true at the first element whose call
\* returns true, and false after the last: results[i] holds what the call on
\* the i-th element may return
FirstTrue(results, i) ==
    IF i > Len(results) THEN {FALSE}
    ELSE (results[i] \cap {TRUE})
           \cup (IF FALSE \in results[i] THEN FirstTrue(results, i + 1) ELSE {})

RECURSIVE needsTimeImport(_), needsTimeImportValue(_)
\* needsTimeImportValue looking at the first table only of an array of tables
needsTimeImportValueFirst(v) ==
    CASE v.k = "str" -> {isDurationString(v.s)}
      [] v.k = "map" -> needsTimeImport(v.m)
      [] v.k = "arr" -> FirstTrue([i \in 1..Len(v.q) |-> needsTimeImportValue(v.q[i])], 1)
      [] v.k = "aot" ->
            FirstTrue([i \in 1..(IF Len(v.q) > 0 THEN 1 ELSE 0) |-> needsTimeImport(v.q[i].m)], 1)
      [] OTHER -> {FALSE}

needsTimeImportValue(v) ==
    CASE v.k = "str" -> {isDurationString(v.s)}
      [] v.k = "map" -> needsTimeImport(v.m)
      [] v.k = "arr" -> FirstTrue([i \in 1..Len(v.q) |-> needsTimeImportValue(v.q[i])], 1)
      [] v.k = "aot" -> FirstTrue([i \in 1..Len(v.q) |-> needsTimeImport(v.q[i].m)], 1)
      [] OTHER -> {FALSE}

needsTimeImport(data) ==
    UNION {FirstTrue([i \in 1..Len(order) |-> needsTimeImportValue(data[order[i]])], 1) :
              order \in RangeOrders(DOMAIN data)}

\* the leaves of the trees scanned: durations, strings that are none (a
\* number without unit, a file reference whose path reads as a duration) and
\* a number
TimeLeaves ==
    { StrV(<<"2", "h">>), StrV(Plain), StrV(<<"2">>), StrV(PrefixFile \o <<"2", "h">>), IntV(5) }

\* arrays of up to MaxElems leaves
TimeArrays == {ArrV(q) : q \in UNION {[1..n -> TimeLeaves] : n \in 0..MaxElems}}

\* arrays of up to MaxElems tables of one leaf
TimeTableArrays ==
    {AotV([i \in DOMAIN q |-> (KeyB :> q[i])]) : q \in UNION {[1..n -> TimeLeaves] : n \in 0..MaxElems}}

\* a leaf, a table, an array, an array in an array, an array of tables, and
\* a table in the second table of an array of tables
TimeValues ==
    TimeLeaves \cup {MapV((KeyB :> l)) : l \in TimeLeaves} \cup TimeArrays
      \cup {ArrV(<<ArrV(<<IntV(5), l>>)>>) : l \in TimeLeaves}
      \cup TimeTableArrays
      \cup {AotV(<<(KeyA :> IntV(5)), (KeyA :> MapV((KeyB :> l)))>>) : l \in TimeLeaves}

\* trees of one key, and of that key and a leaf
TimeTrees ==
    {(KeyA :> v) : v \in TimeValues}
      \cup {(KeyA :> v) @@ (KeyB :> l) : v \in TimeValues, l \in TimeLeaves}

TimeInputs == [data : TimeTrees]

\* two scans of the same tree
CallNeedsTimeImport ==
    /\ fpc = "in"
    /\ fn = "needsTimeImport"
    /\ \E first \in needsTimeImport(fin.data), second \in needsTimeImport(fin.data) :
          Call("needsTimeImport", [first |-> first, second |-> second, data |-> fin.data])

(***************************************************************************)
(* parseFileSize.  An int64 that is a multiple of a power of two is held   *)
(* as its coefficient and the exponent: [coef, exp] is coef * 2^exp.  The  *)
(* numbers parsed have at most eight digits, so only the product can leave *)
(* the 64-bit range.                                                       *)
(***************************************************************************)
\* the width of int64
Int64Bits == 64

RECURSIVE Pow2(_)
Pow2(k) == IF k = 0 THEN 1 ELSE 2 * Pow2(k - 1)

\* the signed number that the lowest bits bits of num are, in two's complement
SignedBits(low, bits) == IF low >= Pow2(bits - 1) THEN low - Pow2(bits) ELSE low

\* num * 2^exp in int64: the bits of the product above bit 63 are lost, so
\* of num the lowest 64 - exp bits count
Int64Mul(num, exp) ==
    [coef |-> IF Int64Bits - exp > 31 THEN num
              ELSE SignedBits(num % Pow2(Int64Bits - exp), Int64Bits - exp),
     exp |-> exp]

\* strings.TrimSuffix
TrimSuffix(s, suffix) == IF HasSuffix(s, suffix) THEN SubSeq(s, 1, Len(s) - Len(suffix)) ELSE s

\* the suffixes in the order of the slice, each with the exponent of its
\* multiplier 1024^k = 2^(10k)
multipliers ==
    << [suffix |-> <<"T", "B">>, exp |-> 40],
       [suffix |-> <<"G", "B">>, exp |-> 30],
       [suffix |-> <<"M", "B">>, exp |-> 20],
       [suffix |-> <<"K", "B">>, exp |-> 10],
       [suffix |-> <<"B">>, exp |-> 0] >>

\* what parseFileSize returns for the number parsed, times 2^exp
SizeResult(parsed, exp) ==
    IF parsed.ok THEN [err |-> FALSE, size |-> Int64Mul(parsed.v, exp)]
    ELSE [err |-> TRUE, size |-> Int64Mul(0, 0)]

RECURSIVE parseWithSuffix(_, _)
\* the loop over the multipliers from the i-th on, and the plain number
\* after it
parseWithSuffix(sizeStr, i) ==
    IF i > Len(multipliers) THEN SizeResult(ParseInt(sizeStr), 0)
    ELSE IF HasSuffix(sizeStr, multipliers[i].suffix)
    THEN SizeResult(ParseInt(TrimSpace(TrimSuffix(sizeStr, multipliers[i].suffix))),
                    multipliers[i].exp)
    ELSE parseWithSuffix(sizeStr, i + 1)

parseFileSize(sizeStr) ==
    IF sizeStr = <<>> THEN [err |-> FALSE, size |-> Int64Mul(0, 0)]
    ELSE parseWithSuffix(TrimSpace(ToUpper(sizeStr)), 1)

\* the numbers of the sizes: small ones, and those around 2^23, whose
\* product with 2^40 is around 2^63
SizeDigits ==
    { <<>>, <<"0">>, <<"1">>, <<"1", "2">>, <<"1", "0", "2", "4">>,
      <<"8", "3", "8", "8", "6", "0", "7">>, <<"8", "3", "8", "8", "6", "0", "8">>,
      <<"1", "6", "7", "7", "7", "2", "1", "6">>, <<"1", "x">> }

SizeSigns == {<<>>, <<"-">>, <<"+">>}

SizeUnits ==
    { <<>>, <<"B">>, <<"K", "B">>, <<"M", "B">>, <<"G", "B">>, <<"T", "B">>,
      <<"k", "b">>, <<"M", "b">>, <<"t", "b">>, <<"K">>, <<"X", "B">> }

SizeSpaces == {<<>>, <<" ">>}

\* the arguments of parseFileSize: the parts of the string, and the string
SizeInputs ==
    {[sign |-> sign, digits |-> digits, unit |-> unit,
      s |-> lead \o sign \o digits \o gap \o unit \o lead] :
        sign \in SizeSigns, digits \in SizeDigits, unit \in SizeUnits,
        lead \in SizeSpaces, gap \in SizeSpaces}

CallParseFileSize == Call("parseFileSize", parseFileSize(fin.s))

(***************************************************************************)
(* The specification of the function calls.                                *)
(***************************************************************************)
FnInit ==
    /\ WatchOff
    /\ GenOff
    /\ fpc = "in"
    /\ fout = <<>>
    /\ \/ fn = "loadFileContent" /\ fin \in LoadInputs
       \/ fn = "writeDurationLiteral" /\ fin \in DurationInputs
       \/ fn = "writeByteArrayLiteral" /\ fin \in ByteInputs
       \/ fn = "toGoType" /\ fin \in TypedInputs
       \/ fn = "generateStructsAndVars" /\ fin \in StructInputs
       \/ fn = "generateGetterMethods" /\ fin \in GetterInputs
       \/ fn = "needsTimeImport" /\ fin \in TimeInputs
       \/ fn = "parseFileSize" /\ fin \in SizeInputs

FnNext ==
    \/ CallLoadFileContent
    \/ CallWriteDurationLiteral
    \/ CallWriteByteArrayLiteral
    \/ CallToGoType
    \/ CallGenerateStructs
    \/ CallGetter
    \/ CallNeedsTimeImport
    \/ CallParseFileSize

FnSpec == FnInit /\ [][FnNext]_vars

(***************************************************************************)
(* Claims about the functions.                                             *)
(***************************************************************************)
\* the file that the call of loadFileContent names
Loaded == fin.fs[KeyA]

C12_DurationRoundTrip ==
    (Returned("writeDurationLiteral") /\ ParseDuration(fin.s).ok) =>
        /\ fout.text = "0" <=> ParseDuration(fin.s).d = ZeroDuration
        /\ fout.text # "0" =>
              /\ fout.text = "sum"
              /\ fout.parts # <<>>
              /\ \A i \in 1..Len(fout.parts) : fout.parts[i].count > 0
              /\ \A i \in 1..(Len(fout.parts) - 1) :
                    ComponentOf(fout.parts[i].name) < ComponentOf(fout.parts[i + 1].name)
              /\ LiteralValue(fout.parts) = ParseDuration(fin.s).d

\* the claim of C12 for the durations that are not negative
C12_NonNegative ==
    (Returned("writeDurationLiteral") /\ ParseDuration(fin.s).ok /\ ~ParseDuration(fin.s).d.neg) =>
        /\ fout.text = "0" <=> ParseDuration(fin.s).d = ZeroDuration
        /\ fout.text # "0" =>
              /\ fout.text = "sum"
              /\ fout.parts # <<>>
              /\ \A i \in 1..Len(fout.parts) : fout.parts[i].count > 0
              /\ \A i \in 1..(Len(fout.parts) - 1) :
                    ComponentOf(fout.parts[i].name) < ComponentOf(fout.parts[i + 1].name)
              /\ LiteralValue(fout.parts) = ParseDuration(fin.s).d

\* a negative duration was written as a bare 0
C12_NegativeAsZero ==
    /\ Returned("writeDurationLiteral")
    /\ ParseDuration(fin.s).ok
    /\ ParseDuration(fin.s).d.neg
    /\ fout.text = "0"

\* C13: the literal holds one 0xNN token per byte, in order, and decoding it
\* gives the input; every row holds at most 12 tokens and at least one, and
\* every row but the last exactly 12; no separator is doubled; the empty
\* input is written as []byte{}.
C13_ByteArrayRoundTrip ==
    Returned("writeByteArrayLiteral") =>
        /\ Decoded(fout) = fin.data
        /\ \A i \in TokensOf(fout) :
              /\ i + 2 <= Len(fout)
              /\ \E k, l \in 1..16 : fout[i + 1] = HexDigits[k] /\ fout[i + 2] = HexDigits[l]
        /\ fin.data = <<>> <=> fout = <<"[]byte{}">>
        /\ \A a, b \in LineEndsOf(fout) :
              (a < b /\ ~\E c \in LineEndsOf(fout) : a < c /\ c < b) =>
                  /\ RowTokens(fout, a, b) \in 1..bytesPerLine
                  /\ fout[b] = "\n" => RowTokens(fout, a, b) = bytesPerLine
                  /\ fout[b] = ",\n"
                        => \A i \in (a + 1)..(b - 1) : fout[i] # ", " \/ fout[i + 1] = "0x"
        /\ \A i \in 1..Len(fout) :
              fout[i] = ", " => /\ i > 3 /\ fout[i - 3] = "0x"
                                /\ i < Len(fout) /\ fout[i + 1] \in {"0x", "\n"}
        /\ \A i \in 1..Len(fout) : fout[i] = "\n" => fout[i - 1] = ", "
        /\ fin.data # <<>> =>
              /\ Cardinality(LineEndsOf(fout)) = 1 + ((Len(fin.data) + bytesPerLine - 1) \div bytesPerLine)
              /\ fout[1] = "[]byte{\n"
              /\ fout[Len(fout)] = "}"

\* a file of two full rows and a last row of one byte was written
C13_Witness ==
    /\ Returned("writeByteArrayLiteral")
    /\ Len(fin.data) = 2 * bytesPerLine + 1
    /\ fin.data[1] # fin.data[2]
    /\ Decoded(fout) = fin.data
    /\ Cardinality(LineEndsOf(fout)) = 4

\* the type of a string, of a number and of a boolean, by the priority file
\* reference, duration, string
ScalarTyped(v, type) ==
    /\ v.k = "str" /\ HasPrefix(v.s, PrefixFile) => type = <<"[]byte">>
    /\ v.k = "str" /\ ~HasPrefix(v.s, PrefixFile) /\ ParseDuration(v.s).ok
          => type = <<"time.Duration">>
    /\ v.k = "str" /\ ~HasPrefix(v.s, PrefixFile) /\ ~ParseDuration(v.s).ok
          => type = <<"string">>
    /\ v.k = "int" => type = <<"int64">>
    /\ v.k = "float" => type = <<"float64">>
    /\ v.k = "bool" => type = <<"bool">>

\* a non-empty array is typed as a slice of the type of its first element
ArrayTyped(v, type) ==
    (v.k = "arr" /\ Len(v.q) > 0) => type = <<"[]">> \o toGoType(v.q[1])

\* C17 as stated: strings, numbers and booleans are typed by the priority,
\* a non-empty array by its first element, and every other value is any.
C17_OthersAny ==
    Returned("toGoType") =>
        /\ ScalarTyped(fin.v, fout)
        /\ ArrayTyped(fin.v, fout)
        /\ (fin.v.k \notin {"str", "int", "float", "bool"} /\ ~(fin.v.k = "arr" /\ Len(fin.v.q) > 0))
              => fout = <<"any">>

\* C17: toGoType returns a type for every value: strings, numbers and
\* booleans are typed by the priority file reference, duration, string; a
\* non-empty array is a slice of the type of its first element; an empty
\* array is []any, a table the placeholder struct, an array of tables the
\* placeholder []struct, and only a value of no known type is any.
C17_Classification ==
    Returned("toGoType") =>
        /\ ScalarTyped(fin.v, fout)
        /\ ArrayTyped(fin.v, fout)
        /\ (fin.v.k = "arr" /\ Len(fin.v.q) = 0) => fout = <<"[]any">>
        /\ fin.v.k = "map" => fout = <<"struct">>
        /\ fin.v.k = "aot" => fout = <<"[]struct">>
        /\ fin.v.k \notin {"str", "int", "float", "bool", "arr", "map", "aot"} => fout = <<"any">>
        /\ fout # <<>>

\* an array whose first element is a file reference that reads as a
\* duration, and whose second is a number, was typed as [][]byte
C17_Witness ==
    /\ Returned("toGoType")
    /\ fin.v = ArrV(<<StrV(PrefixFile \o <<"2", "h">>), IntV(5)>>)
    /\ fout = <<"[]", "[]byte">>

RECURSIVE NodesBelow(_, _, _)
\* the table, or the first table of the array of tables, at the key of a
\* table named name at path, and the tables below it
ChildNodes(name, key, val, path) ==
    IF val.k = "map"
    THEN NodesBelow(stripSuffix(name) \o PascalCase(key) \o Config, val.m, Append(path, key))
    ELSE IF HasFirstTable(val)
    THEN NodesBelow(stripSuffix(name) \o PascalCase(key) \o Item, val.q[1].m, Append(path, key))
    ELSE {}

NodesBelow(name, data, path) ==
    {[path |-> path, name |-> name, fields |-> data]}
      \cup UNION {ChildNodes(name, key, data[key], path) : key \in DOMAIN data}

\* the tables of a tree, each with its path, its TypeName and its fields
TableNodes(data) == UNION {ChildNodes(<<>>, key, data[key], <<>>) : key \in DOMAIN data}

\* C14: two tables at different paths of the tree have different TypeNames,
\* and the map of the struct types holds the fields of every table under
\* its TypeName.
C14_DistinctTypeNames ==
    Returned("generateStructsAndVars") =>
        /\ \A n, m \in TableNodes(fin.data) : n.path # m.path => n.name # m.name
        /\ \A n \in TableNodes(fin.data) :
              n.name \in DOMAIN fout.structs /\ fout.structs[n.name] = n.fields

\* the tables a.b and a_b were both named ABConfig, and the fields of a_b
\* are not in the map
C14_Collision ==
    /\ Returned("generateStructsAndVars")
    /\ \E n, m \in TableNodes(fin.data) :
          /\ n.path = <<KeyA, KeyB>>
          /\ m.path = <<KeyAB>>
          /\ n.name = m.name
          /\ fout.structs[n.name] = n.fields
          /\ m.fields # n.fields

\* C15: every run on a tree builds the same map of struct types and writes
\* the same text; the types are written in the order of their names and the
\* fields of a type in the order of their keys.
C15_Deterministic ==
    Returned("generateStructsAndVars") =>
        /\ \A out \in generateStructs(fin.data) : out = fout
        /\ \A i \in 1..(Len(fout.text) - 1) : StringLess(fout.text[i].name, fout.text[i + 1].name)
        /\ \A i \in 1..Len(fout.text) :
              /\ fout.text[i].name \in DOMAIN fout.structs
              /\ Len(fout.text[i].fields) = Cardinality(DOMAIN fout.structs[fout.text[i].name])
              /\ \A j \in 1..Len(fout.text[i].fields) :
                    fout.text[i].fields[j].name =
                        PascalCase(SortStrings(DOMAIN fout.structs[fout.text[i].name])[j])

\* two runs on one tree can differ
C15_TwoOutcomes ==
    /\ Returned("generateStructsAndVars")
    /\ \E out \in generateStructs(fin.data) : out.text # fout.text

RECURSIVE ShapeOf(_)
\* a value with every leaf replaced by the same leaf
ShapeOfTable(t) == [key \in DOMAIN t |-> ShapeOf(t[key])]

ShapeOf(v) ==
    IF v.k = "map" THEN MapV(ShapeOfTable(v.m))
    ELSE IF v.k \in {"arr", "aot"} THEN [v EXCEPT !.q = [i \in 1..Len(v.q) |-> ShapeOf(v.q[i])]]
    ELSE IntV(0)

\* the lists of TypeNames that the runs on a tree can give
NameLists(data) == {SortStrings(DOMAIN structs) : structs \in allStructs(data)}

\* C16: the ordered list of TypeNames of a tree is one list, the same for
\* every tree of the same keys and tables whatever its leaves, and every
\* name is the name of the parent without its suffix, the PascalCase key
\* and Config or Item.
C16_NamesFromStructure ==
    Returned("generateStructsAndVars") =>
        /\ NameLists(ShapeOfTable(fin.data)) = {SortStrings(DOMAIN fout.structs)}
        /\ \A name \in DOMAIN fout.structs : \E n \in TableNodes(fin.data) : n.name = name

\* the list of TypeNames of a tree does not depend on its leaves, run by run
C16_LeavesIgnored ==
    Returned("generateStructsAndVars") =>
        /\ SortStrings(DOMAIN fout.structs) \in NameLists(ShapeOfTable(fin.data))
        /\ NameLists(ShapeOfTable(fin.data)) = NameLists(fin.data)
        /\ \A name \in DOMAIN fout.structs : \E n \in TableNodes(fin.data) : n.name = name

\* two runs on one tree gave different lists of TypeNames
C16_TwoLists ==
    /\ Returned("generateStructsAndVars")
    /\ Cardinality(NameLists(fin.data)) > 1

\* the default of a field: its value in the configuration at generation
DefaultOf(v, fs) ==
    IF v.k = "str" /\ HasPrefix(v.s, PrefixFile) THEN RetBytes(fs[TrimPrefix(v.s, PrefixFile)].data)
    ELSE IF v.k = "str" /\ ParseDuration(v.s).ok THEN RetDur(ParseDuration(v.s).d)
    ELSE RetVal(v)

\* the value that a string parses to as the type of the field v, if it does
ParsedAs(v, s) ==
    CASE v.k = "str" /\ ParseDuration(v.s).ok ->
            [ok |-> ParseDuration(s).ok, ret |-> RetDur(ParseDuration(s).d)]
      [] v.k = "str" /\ ~ParseDuration(v.s).ok -> [ok |-> TRUE, ret |-> RetVal(StrV(s))]
      [] v.k = "int" -> [ok |-> ParseInt(s).ok, ret |-> RetVal(IntV(ParseInt(s).v))]
      [] v.k = "float" -> [ok |-> ParseFloat(s).ok, ret |-> RetVal(FloatV(ParseFloat(s).v))]
      [] v.k = "bool" -> [ok |-> ParseBool(s).ok, ret |-> RetVal(BoolV(ParseBool(s).v))]

IsScalarField == fin.value.k \in {"str", "int", "float", "bool"}

IsBlobField == fin.value.k = "str" /\ HasPrefix(fin.value.s, PrefixFile)

\* C18 as stated: the accessor of a scalar field returns the parsed value
\* of its variable when the variable is set and parses as the type of the
\* field, and the default otherwise; the accessor of a field of bytes
\* returns the contents of the file that its variable names when the file
\* is readable, and the embedded bytes otherwise.
C18_Accessors ==
    (Returned("generateGetterMethods") /\ IsScalarField) =>
        /\ (~IsBlobField /\ fin.name \in DOMAIN fin.env /\ ParsedAs(fin.value, fin.env[fin.name]).ok)
              => fout = ParsedAs(fin.value, fin.env[fin.name]).ret
        /\ (~IsBlobField /\ ~(fin.name \in DOMAIN fin.env /\ ParsedAs(fin.value, fin.env[fin.name]).ok))
              => fout = DefaultOf(fin.value, fin.genFs)
        /\ (IsBlobField /\ fin.name \in DOMAIN fin.env /\ ReadFile(fin.runFs, fin.env[fin.name]).ok)
              => fout = RetBytes(fin.runFs[fin.env[fin.name]].data)
        /\ (IsBlobField /\ ~(fin.name \in DOMAIN fin.env /\ ReadFile(fin.runFs, fin.env[fin.name]).ok))
              => fout = DefaultOf(fin.value, fin.genFs)

\* the default as it is embedded: a negative duration is written as 0
EmbeddedOf(v, fs) ==
    IF v.k = "str" /\ ~HasPrefix(v.s, PrefixFile) /\ ParseDuration(v.s).ok /\ ParseDuration(v.s).d.neg
    THEN RetDur(ZeroDuration)
    ELSE DefaultOf(v, fs)

\* the variable of the accessor holds a value that is not empty
IsSetNonEmpty == fin.name \in DOMAIN fin.env /\ fin.env[fin.name] # <<>>

\* C18: the accessor of a scalar field returns the parsed value of its
\* variable when the variable holds a value that is not empty and parses
\* as the type of the field, and otherwise the default as it was embedded
\* (a negative duration as 0); the accessor of a field of bytes returns the
\* contents of the file that its variable names when the file is readable,
\* and the embedded bytes otherwise; every accessor returns a value.
C18_AccessorsNonEmpty ==
    (Returned("generateGetterMethods") /\ IsScalarField) =>
        /\ (~IsBlobField /\ IsSetNonEmpty /\ ParsedAs(fin.value, fin.env[fin.name]).ok)
              => fout = ParsedAs(fin.value, fin.env[fin.name]).ret
        /\ (~IsBlobField /\ ~(IsSetNonEmpty /\ ParsedAs(fin.value, fin.env[fin.name]).ok))
              => fout = EmbeddedOf(fin.value, fin.genFs)
        /\ (IsBlobField /\ IsSetNonEmpty /\ ReadFile(fin.runFs, fin.env[fin.name]).ok)
              => fout = RetBytes(fin.runFs[fin.env[fin.name]].data)
        /\ (IsBlobField /\ ~(IsSetNonEmpty /\ ReadFile(fin.runFs, fin.env[fin.name]).ok))
              => fout = EmbeddedOf(fin.value, fin.genFs)
        /\ fout.k \in {"val", "dur", "bytes"}

\* the accessor of a field of bytes returned the embedded bytes while its
\* variable named a file that cannot be read
C18_Witness ==
    /\ Returned("generateGetterMethods")
    /\ fin.value = StrV(RefA)
    /\ fin.env = (EnvAB :> KeyB)
    /\ fin.runFs = (KeyB :> FileOf(FALSE, 1))
    /\ fout = RetBytes(GoodFile.data)

\* the accessor of a string returned the default while its variable was
\* set to the empty string
C18_EmptyIgnored ==
    /\ Returned("generateGetterMethods")
    /\ fin.value = StrV(Plain)
    /\ fin.env = (EnvAB :> <<>>)
    /\ fout = RetVal(StrV(Plain))

\* the default of an array: the defaults of its elements, or its tables
ArrayDefault(v, fs) ==
    RetSlice([i \in 1..Len(v.q) |->
                 IF v.q[i].k = "map" THEN RetVal(v.q[i]) ELSE DefaultOf(v.q[i], fs)])

EmbeddedArray(v, fs) == RetSlice([i \in 1..Len(v.q) |-> EmbeddedOf(v.q[i], fs)])

C19_TablesLost ==
    /\ Returned("generateGetterMethods")
    /\ fin.value = AotV(<<(KeyA :> IntV(5))>>)
    /\ fout = RetSlice(<<>>)

\* the arrays of the tree read, each with the name of its variable
ArrayLeaves ==
    {x \in Leaves(gopts.input.tree, <<"C", "O", "N", "F", "I", "G">>) : x.node.k = "arr"}

\* the variables of the top-level keys
TopLevelNames ==
    {<<"C", "O", "N", "F", "I", "G", "_">> \o ToUpper(key) : key \in DOMAIN gopts.input.tree}

\* what the claim says an array is after the overrides: the converted list
\* if its variable is set and it is not empty, and the array itself if not
OverriddenArray(x) ==
    IF Getenv(genv, x.key) # <<>> /\ Len(x.node.q) > 0
    THEN convertArray(Getenv(genv, x.key), x.node.q[1]).v
    ELSE x.node

\* C20: after the overrides every array of scalars of the tree, at top
\* level or in a table, whose variable is set holds the list of the parts
\* of the value, split at commas, trimmed and converted to the type of its
\* first element, and an empty array is unchanged.
C20_ArrayOverrides ==
    (gpc = "generate" /\ OverridesApplied) =>
        \A x \in ArrayLeaves :
            \A y \in Leaves(gtree, <<"C", "O", "N", "F", "I", "G">>) :
                y.key = x.key => y.node = OverriddenArray(x)

\* the claim of C20 for the arrays inside tables
C20_NestedArrayOverrides ==
    (gpc = "generate" /\ OverridesApplied) =>
        \A x \in ArrayLeaves :
            x.key \notin TopLevelNames =>
                \A y \in Leaves(gtree, <<"C", "O", "N", "F", "I", "G">>) :
                    y.key = x.key => y.node = OverriddenArray(x)

\* a top-level array whose variable held a list of numbers was replaced by
\* the string of the variable
C20_TopLevelArrayAsString ==
    /\ gpc = "generate"
    /\ OverridesApplied
    /\ gopts.input.tree = (KeyA :> ArrV(<<IntV(1), IntV(2)>>))
    /\ Getenv(genv, <<"C", "O", "N", "F", "I", "G", "_", "A">>) = <<"1", ",", " ", "2">>
    /\ gtree = (KeyA :> StrV(<<"1", ",", " ", "2">>))

\* an array inside a table was replaced by the list of the numbers of its
\* variable
C20_NestedArrayReplaced ==
    /\ gpc = "generate"
    /\ OverridesApplied
    /\ gopts.input.tree = (KeyA :> MapV((KeyB :> ArrV(<<IntV(1), IntV(2)>>))))
    /\ Getenv(genv, <<"C", "O", "N", "F", "I", "G", "_", "A", "_", "B">>) = <<"1", ",", " ", "2">>
    /\ gtree = (KeyA :> MapV((KeyB :> ArrV(<<IntV(1), IntV(2)>>))))

RECURSIVE PathsOf(_)
\* the paths of the nodes of a tree: the keys from the root to the node, a
\* table's own path and those of the nodes below it
PathsOf(data) ==
    UNION {{<<key>>} \cup (IF data[key].k = "map"
                           THEN {<<key>> \o p : p \in PathsOf(data[key].m)}
                           ELSE {}) : key \in DOMAIN data}

RECURSIVE NodeAt(_, _)
\* the node at a path
NodeAt(data, path) ==
    IF Len(path) = 1 THEN data[path[1]] ELSE NodeAt(data[path[1]].m, Tail(path))

RECURSIVE EnvName(_)
\* CONFIG, then the keys of the path in upper case, joined by "_"
EnvName(path) ==
    IF path = <<>> THEN <<"C", "O", "N", "F", "I", "G">>
    ELSE EnvName(SubSeq(path, 1, Len(path) - 1)) \o <<"_">> \o ToUpper(path[Len(path)])

\* Apply has returned nil and the tree it worked on is gtree
ApplyReturnedNil == gpc = "generate" /\ OverridesApplied

IsArrayOfTables(v) == v.k = "aot" \/ HasFirstTable(v)

\* C21: whatever variables are set, Apply replaces no table and no array of
\* tables: after it every table of the tree is a table still and every array
\* of tables is the array it was.
C21_TablesNeverReplaced ==
    ApplyReturnedNil =>
        \A p \in PathsOf(gopts.input.tree) :
            /\ NodeAt(gopts.input.tree, p).k = "map" => NodeAt(gtree, p).k = "map"
            /\ IsArrayOfTables(NodeAt(gopts.input.tree, p)) =>
                  NodeAt(gtree, p) = NodeAt(gopts.input.tree, p)

\* the part of C21 about tables: a table stays a table with the keys it had
C21_TablesRecursed ==
    ApplyReturnedNil =>
        \A p \in PathsOf(gopts.input.tree) :
            NodeAt(gopts.input.tree, p).k = "map" =>
                /\ NodeAt(gtree, p).k = "map"
                /\ DOMAIN NodeAt(gtree, p).m = DOMAIN NodeAt(gopts.input.tree, p).m

\* a top-level array of tables whose variable is set was replaced by the
\* string of the variable
C21_TableArrayAsString ==
    /\ ApplyReturnedNil
    /\ gopts.input.tree = (KeyA :> AotV(<<(KeyB :> IntV(5))>>))
    /\ Getenv(genv, EnvName(<<KeyA>>)) = <<"x">>
    /\ gtree = (KeyA :> StrV(<<"x">>))

\* an array of tables inside a table was replaced by the string as well
C21_NestedTableArrayAsString ==
    /\ ApplyReturnedNil
    /\ gopts.input.tree = (KeyA :> MapV((KeyB :> AotV(<<(KeyA :> IntV(5))>>))))
    /\ Getenv(genv, EnvName(<<KeyA, KeyB>>)) = <<"1", "2">>
    /\ gtree = (KeyA :> MapV((KeyB :> StrV(<<"1", "2">>))))

Scalars == {"str", "int", "float", "bool"}

\* the paths of the scalar leaves of the tree read
ScalarPaths == {p \in PathsOf(gopts.input.tree) : NodeAt(gopts.input.tree, p).k \in Scalars}

\* the value of the original's type that the string s denotes
OverrideOf(original, s) ==
    CASE original.k = "int" -> IntV(ParseInt(s).v)
      [] original.k = "float" -> FloatV(s)
      [] original.k = "bool" -> BoolV(ParseBool(s).v)
      [] OTHER -> StrV(s)

\* the output file was written by a call that applied the overrides
OutputWritten == OverridesApplied /\ gout.state = "written"

\* what C22 says of the leaf at path p when its variable holds s: Apply has
\* stored the converted value, and the output written has it and, where it
\* differs, not the original
OverrideStored(p, s) ==
    /\ ApplyReturnedNil => NodeAt(gtree, p) = OverrideOf(NodeAt(gopts.input.tree, p), s)
    /\ OutputWritten =>
          /\ NodeAt(gout.src.tree, p) = OverrideOf(NodeAt(gopts.input.tree, p), s)
          /\ \/ NodeAt(gout.src.tree, p) # NodeAt(gopts.input.tree, p)
             \/ OverrideOf(NodeAt(gopts.input.tree, p), s) = NodeAt(gopts.input.tree, p)

C22_EmptyIgnored ==
    /\ OutputWritten
    /\ gopts.input.tree = (KeyA :> StrV(Plain))
    /\ genv = (<<"C", "O", "N", "F", "I", "G", "_", "A">> :> <<>>)
    /\ gout.src.tree = (KeyA :> StrV(Plain))

\* the paths of the nodes of the tree read that are not tables
LeafPaths == {p \in PathsOf(gopts.input.tree) : NodeAt(gopts.input.tree, p).k # "map"}

\* the variable of the node at path p is not set
Unset(p) == EnvName(p) \notin DOMAIN genv

\* GenerateFromFile has returned the error of Apply
ApplyFailed ==
    /\ gpc = "done"
    /\ gerr # NoErr
    /\ Head(gerr.msg) = "failed to apply environment overrides"

\* C23: a node whose variable is not set has after Apply the value it had,
\* also in a call of Apply that fails on another key; when the variable of no
\* node is set, Apply returns no error and the tree is the tree it was given.
C23_UnsetUnchanged ==
    OverridesApplied =>
        /\ \A p \in LeafPaths :
              Unset(p) =>
                  /\ NodeAt(Apply(gopts.input.tree, genv).tree, p) = NodeAt(gopts.input.tree, p)
                  /\ ApplyReturnedNil => NodeAt(gtree, p) = NodeAt(gopts.input.tree, p)
        /\ (\A p \in PathsOf(gopts.input.tree) : Unset(p)) =>
              /\ ~ApplyFailed
              /\ ApplyReturnedNil => gtree = gopts.input.tree

\* the variable of a is set and that of b.a is not: a was overridden and b.a
\* is what it was
C23_Witness ==
    /\ ApplyReturnedNil
    /\ gopts.input.tree = (KeyA :> IntV(5)) @@ (KeyB :> MapV((KeyA :> BoolV(TRUE))))
    /\ genv = (<<"C", "O", "N", "F", "I", "G", "_", "A">> :> <<"1", "2">>)
    /\ gtree = (KeyA :> IntV(12)) @@ (KeyB :> MapV((KeyA :> BoolV(TRUE))))

\* no variable is set, and the tree after Apply is the tree read
C23_NoVariable ==
    /\ ApplyReturnedNil
    /\ genv = <<>>
    /\ gopts.input.tree = (KeyA :> MapV((KeyB :> ArrV(<<IntV(1), IntV(2)>>))))
    /\ gtree = gopts.input.tree

RECURSIVE FirstOnly(_)
\* a tree with every array of tables cut down to its first table
FirstOnlyTable(t) == [key \in DOMAIN t |-> FirstOnly(t[key])]

FirstOnly(v) ==
    IF v.k = "map" THEN MapV(FirstOnlyTable(v.m))
    ELSE IF HasFirstTable(v) THEN [v EXCEPT !.q = <<MapV(FirstOnlyTable(v.q[1].m))>>]
    ELSE v

\* the table n is the one recorded under its TypeName
Recorded(n) == n.name \in DOMAIN fout.structs /\ fout.structs[n.name] = n.fields

\* the table m is above the table n
IsAbove(m, n) == Len(m.path) < Len(n.path) /\ SubSeq(n.path, 1, Len(m.path)) = m.path

\* every table above n is recorded, so that the collector came to n
Visited(n) == \A m \in TableNodes(fin.data) : IsAbove(m, n) => Recorded(m)

C24_SkippedNotRecursed ==
    /\ Returned("generateStructsAndVars")
    /\ fin.data = (KeyA :> MapV((KeyB :> MapV((KeyA :> IntV(1))))))
                    @@ (KeyAB :> MapV((KeyB :> MapV((KeyB :> IntV(2))))))
    /\ \E n, m \in TableNodes(fin.data) :
          /\ n.path = <<KeyA, KeyB>> /\ m.path = <<KeyAB>> /\ n.name = m.name
          /\ Recorded(n) /\ ~Recorded(m)
    /\ \E c \in TableNodes(fin.data) : c.path = <<KeyAB, KeyB>> /\ c.name \notin DOMAIN fout.structs

\* some string of the tree, wherever it is, parses as a duration
HasDuration(data) == \E s \in AllStrings(MapV(data)) : ParseDuration(s).ok

\* C25: needsTimeImport returns true exactly when some string of the tree, at
\* top level, in a table, in an array or in any table of an array of tables,
\* parses as a duration; the tree is what it was, and a second scan of the
\* tree gives the same answer.
C25_NeedsTimeImport ==
    Returned("needsTimeImport") =>
        /\ fout.first = HasDuration(fin.data)
        /\ fout.second = fout.first
        /\ fout.data = fin.data

\* the only duration of the tree is in the second table of an array of
\* tables, behind a table, and both scans found it
C25_Witness ==
    /\ Returned("needsTimeImport")
    /\ fin.data = (KeyA :> AotV(<<(KeyA :> IntV(5)), (KeyA :> MapV((KeyB :> StrV(<<"2", "h">>))))>>))
                    @@ (KeyB :> StrV(Plain))
    /\ fout.first /\ fout.second

\* a tree whose strings are a number without unit and a file reference gave
\* false
C25_NoDuration ==
    /\ Returned("needsTimeImport")
    /\ fin.data = (KeyA :> ArrV(<<StrV(<<"2">>), StrV(PrefixFile \o <<"2", "h">>)>>))
                    @@ (KeyB :> StrV(Plain))
    /\ ~fout.first /\ ~fout.second

\* a retry goroutine has re-attached the watch
Rewatched == \E k \in DOMAIN retries : retries[k].result = "rewatched"

\* the file is there with the content v, the watch is on it again after a
\* removal, and the loop runs
RecreatedAs(v) ==
    /\ LoopRunning
    /\ file.exists
    /\ file.ver = v
    /\ watched
    /\ Rewatched

\* a regeneration run has read the content v
RegeneratedFrom(v) == \E r \in DOMAIN runs : runs[r].readVer = v

\* C26: once the file that was removed is there again with new content and
\* the watch is re-attached, a regeneration run that reads that content
\* eventually starts, unless the file changes again or the command is
\* stopped.
C26_RecreateRegenerates ==
    \A v \in 2..(MaxFsOps + 1) :
        RecreatedAs(v) ~> (RegeneratedFrom(v) \/ file.ver # v \/ ~file.exists \/ ~LoopRunning
                             \/ sigPending)

\* the watch is re-attached on the recreated file, no event, timer, callback
\* or retry is left, and no run has read the new content: the output is that
\* of the file before the removal
C26_StaleAfterRecreate ==
    /\ loopPc = "select"
    /\ RecreatedAs(2)
    /\ events = <<>>
    /\ ~sigPending
    /\ ArmedTimers = {}
    /\ RunningRuns = {}
    /\ ActiveRetries = {}
    /\ runs = <<>>
    /\ output = 1

\* a watch that is re-attached is re-attached by a retry goroutine, which
\* starts no run and arms no timer: the step changes neither the timers nor
\* the runs nor the output
C26_ReattachOnly ==
    [][(~watched /\ watched' /\ loopPc # "start") =>
            /\ \E k \in DOMAIN retries : retries[k].pc = "wait" /\ retries'[k].result = "rewatched"
            /\ UNCHANGED <<timers, runs, output, events, debounceTimer>>]_vars

\* the loop has handled every remove event and the watch is detached
DetachedByRemove ==
    /\ LoopRunning
    /\ removes > 0
    /\ ~watched
    /\ \A i \in DOMAIN events : events[i].op # "remove"

Warned == \E k \in DOMAIN retries : retries[k].result = "warned"

\* C27: whenever the loop runs and the watch is detached because of a remove
\* event, a retry goroutine is in flight or the warning that the retries are
\* exhausted was printed.
C27_DetachedHasRetry == DetachedByRemove => (ActiveRetries # {} \/ Warned)

\* what holds instead: the watch can also be detached with no retry and no
\* warning, after a remove event that found readdInProgress still set by a
\* retry that had re-attached the watch
C27_DetachedOrRaced ==
    DetachedByRemove =>
        \/ ActiveRetries # {}
        \/ Warned
        \/ /\ removes > Len(retries)
           /\ retries[Len(retries)].result = "rewatched"

\* the second remove event was handled between the retry's watcher.Add and
\* its deferred Store(false): the file is gone, the watch is detached, no
\* retry runs and no warning was printed
C27_DetachedNoRetry ==
    /\ loopPc = "select"
    /\ DetachedByRemove
    /\ removes = 2
    /\ Len(retries) = 1
    /\ retries[1].pc = "ended"
    /\ retries[1].result = "rewatched"
    /\ ~readdInProgress
    /\ events = <<>>

\* the step of the loop that handles a remove event
RemoveStep == removes' = removes + 1

\* the step of the loop that handles a write or create event
WriteStep == Len(timers') = Len(timers) + 1

\* the step stops an armed timer
StopsTimer == \E t \in DOMAIN timers : timers[t].state = "armed" /\ timers'[t].state = "stopped"

\* C28: the step that handles a remove event leaves the debounce timer, its
\* handle and the runs as they are; an armed timer is stopped only by a
\* write/create event or by the signal, so the run it schedules starts after
\* the debounce delay also while a retry is active; and the step that handles
\* a write/create event leaves the retry goroutine and readdInProgress as
\* they are.
C28_Step ==
    /\ RemoveStep => UNCHANGED <<timers, debounceTimer, timerMu, runs, output>>
    /\ StopsTimer => (~RemoveStep /\ loopPc = "select" /\ loopPc' \in {"unlock", "sigUnlock"})
    /\ WriteStep => UNCHANGED <<retries, readdInProgress, removes, watched>>
    /\ \A r \in DOMAIN runs' : r \notin DOMAIN runs => runs'[r].firedAge >= DebounceTicks

C28_RemoveLeavesTimer == [][C28_Step]_vars

\* the timer armed by a write event fired after the debounce delay and its
\* callback runs, after the loop had handled the remove event that followed
\* the write and while the retry goroutine waits
C28_Witness ==
    /\ removes = 1
    /\ ~file.exists
    /\ Len(timers) = 1
    /\ timers[1].state = "fired"
    /\ Len(runs) = 1
    /\ runs[1].timer = 1
    /\ runs[1].firedAge >= DebounceTicks
    /\ Len(retries) = 1
    /\ retries[1].pc = "wait"
    /\ readdInProgress

\* a write event was handled while the retry goroutine that had re-attached
\* the watch was still in flight: the goroutine and the flag are as they were
\* (while the watch is detached no event is delivered)
C28_WriteDuringRetry ==
    /\ loopPc = "unlock"
    /\ Len(timers) = 1
    /\ timers[1].state = "armed"
    /\ Len(retries) = 1
    /\ retries[1].pc = "exit"
    /\ retries[1].result = "rewatched"
    /\ readdInProgress

\* C29: after a successful Apply every scalar of the tree has the Go type,
\* as toGoType gives it to the generated field, that it had before: int64,
\* float64 and bool stay, and a string stays a string, a duration or a
\* file reference.
C29_TypePreserved ==
    ApplyReturnedNil =>
        \A p \in ScalarPaths :
            toGoType(NodeAt(gtree, p)) = toGoType(NodeAt(gopts.input.tree, p))

\* the part of C29 that holds: a scalar keeps the type the decoder gave it,
\* and a number or boolean keeps the type of its field
C29_KindPreserved ==
    ApplyReturnedNil =>
        \A p \in ScalarPaths :
            /\ NodeAt(gtree, p).k = NodeAt(gopts.input.tree, p).k
            /\ NodeAt(gopts.input.tree, p).k \in {"int", "float", "bool"} =>
                  toGoType(NodeAt(gtree, p)) = toGoType(NodeAt(gopts.input.tree, p))

\* the string x was overridden by 3m, and its field is a time.Duration now
C29_StringBecameDuration ==
    /\ ApplyReturnedNil
    /\ gopts.input.tree = (KeyA :> StrV(Plain))
    /\ toGoType(NodeAt(gopts.input.tree, <<KeyA>>)) = <<"string">>
    /\ gtree = (KeyA :> StrV(<<"3", "m">>))
    /\ toGoType(NodeAt(gtree, <<KeyA>>)) = <<"time.Duration">>

\* the duration 2s in a table was overridden by x, and its field is a string
\* now
C29_DurationBecameString ==
    /\ ApplyReturnedNil
    /\ gopts.input.tree = (KeyA :> MapV((KeyB :> StrV(<<"2", "s">>))))
    /\ gtree = (KeyA :> MapV((KeyB :> StrV(<<"x">>))))
    /\ toGoType(NodeAt(gopts.input.tree, <<KeyA, KeyB>>)) = <<"time.Duration">>
    /\ toGoType(NodeAt(gtree, <<KeyA, KeyB>>)) = <<"string">>

\* the power of two that the claim gives a suffix: 1024^4 for TB down to 1
\* for B and for no suffix
UnitExp(unit) ==
    CASE ToUpper(unit) = <<"T", "B">> -> 40
      [] ToUpper(unit) = <<"G", "B">> -> 30
      [] ToUpper(unit) = <<"M", "B">> -> 20
      [] ToUpper(unit) = <<"K", "B">> -> 10
      [] OTHER -> 0

\* the number that the sign and the digits of the input denote
NumericPart == Signed(fin.sign = <<"-">>, fin.digits).v

Accepted == Returned("parseFileSize") /\ ~fout.err

\* C30: for an input it accepts parseFileSize returns the numeric part times
\* the power of 1024 of the suffix, as the integer that product is, and the
\* result is not negative.
C30_ExactNonNegative ==
    Accepted =>
        /\ fout.size = [coef |-> NumericPart, exp |-> UnitExp(fin.unit)]
        /\ fout.size.coef >= 0

\* what holds: the result is that product for a numeric part that is not
\* negative and whose product is below 2^63, and the product in 64 bits
\* otherwise; the suffix is found in any case and around spaces, and a string
\* with no number, another suffix or another character is refused (the empty
\* string is accepted as 0)
C30_ExactInRange ==
    Returned("parseFileSize") =>
        /\ fout.err <=>
              /\ fin.s # <<>>
              /\ \/ ~IsDigits(fin.digits)
                 \/ ToUpper(fin.unit) \notin {<<>>} \cup {multipliers[i].suffix : i \in 1..5}
        /\ Accepted =>
              /\ fout.size = Int64Mul(NumericPart, UnitExp(fin.unit))
              /\ (NumericPart >= 0 /\ (UnitExp(fin.unit) < 40 \/ NumericPart < Pow2(23))) =>
                    /\ fout.size = [coef |-> NumericPart, exp |-> UnitExp(fin.unit)]
                    /\ fout.size.coef >= 0

\* -1 is accepted and is the limit -1, under which loadFileContent loads a
\* file of any size
C30_NegativeLimit ==
    /\ Accepted
    /\ fin.s = <<"-", "1">>
    /\ fout.size = [coef |-> -1, exp |-> 0]
    /\ loadFileContent(RefA, (KeyA :> FileOf(TRUE, MaxLoadSize)), fout.size.coef).err = NoErr

\* 8388608TB is 2^63 bytes: the product wraps to -2^63
C30_WrappedNegative ==
    /\ Accepted
    /\ fin.s = <<"8", "3", "8", "8", "6", "0", "8", "T", "B">>
    /\ fout.size = [coef |-> -8388608, exp |-> 40]

\* 16777216tb is 2^64 bytes: the product wraps to 0, the value that means
\* the default limit
C30_WrappedToZero ==
    /\ Accepted
    /\ fin.s = <<"1", "6", "7", "7", "7", "2", "1", "6", "t", "b">>
    /\ fout.size = [coef |-> 0, exp |-> 40]

\* 12 MB with spaces is 12 * 2^20
C30_InRange ==
    /\ Accepted
    /\ fin.s = <<" ", "1", "2", " ", "M", "B", " ">>
    /\ fout.size = [coef |-> 12, exp |-> 20]

====
